---- MODULE Spec2Model ----
(***************************************************************************)
(* Aion orchestration core: the Run Controller (ControllerLayer), the Plan *)
(* Resolver with its Blueprint Store (PlannerLayer), Arbitration           *)
(* (ToolArbitration) and the Execution Engine with the Agent Registry and  *)
(* the DynamicAgentBuilder.                                                *)
(*                                                                         *)
(* Oracle replies are texts: sequences of tokens (an opening brace, a      *)
(* closing brace, prose, or the members of one JSON object).  Every        *)
(* consumer decodes a reply the way the source does: indexOf("{"),         *)
(* lastIndexOf("}"), slice, JSON.parse, fallback on a thrown parse error.  *)
(* Confidences are in hundredths (0.6 is 60).                              *)
(***************************************************************************)
EXTENDS Integers, Sequences, FiniteSets, TLC

(* ----------------------------- bounds -------------------------------- *)
MaxSteps == 2
MaxRetry == 2

(* --------------------------- JS values ------------------------------- *)
Null == "null"
JsUndefined == [ty |-> "undefined"]
JsNull == [ty |-> "null"]
JsBool(b) == [ty |-> "boolean", b |-> b]
JsNum(n) == [ty |-> "number", n |-> n]
JsStr(s) == [ty |-> "string", s |-> s]
JsArr(a) == [ty |-> "array", a |-> a]

\* Boolean(v) / truthiness of a JS value
ToBoolean(v) ==
  CASE v.ty = "undefined" -> FALSE
    [] v.ty = "null" -> FALSE
    [] v.ty = "boolean" -> v.b
    [] v.ty = "number" -> v.n # 0
    [] v.ty = "string" -> v.s # ""
    [] OTHER -> TRUE

\* json.field of a parsed object: undefined when the member is absent
Field(obj, name) == IF name \in DOMAIN obj THEN obj[name] ELSE JsUndefined

\* v ?? d
Nullish(v, d) == IF v.ty \in {"undefined", "null"} THEN d ELSE v

(* ------------------------ oracle reply texts ------------------------- *)
LB == [t |-> "{"]
RB == [t |-> "}"]
Prose == [t |-> "prose"]
Members(v) == [t |-> "members", v |-> v]

Max(a, b) == IF a >= b THEN a ELSE b
Min(a, b) == IF a <= b THEN a ELSE b

\* String.prototype.indexOf / lastIndexOf, 0-based, -1 when absent
IndexOf(text, tok) ==
  IF \E k \in 1..Len(text) : text[k] = tok
  THEN (CHOOSE k \in 1..Len(text) :
          text[k] = tok /\ \A j \in 1..(k - 1) : text[j] # tok) - 1
  ELSE -1

LastIndexOf(text, tok) ==
  IF \E k \in 1..Len(text) : text[k] = tok
  THEN (CHOOSE k \in 1..Len(text) :
          text[k] = tok /\ \A j \in (k + 1)..Len(text) : text[j] # tok) - 1
  ELSE -1

\* String.prototype.slice(start, end) with JS index normalisation
Slice(text, start, end) ==
  LET n == Len(text)
      s == IF start < 0 THEN Max(n + start, 0) ELSE Min(start, n)
      e == IF end < 0 THEN Max(n + end, 0) ELSE Min(end, n)
  IN IF s < e THEN SubSeq(text, s + 1, e) ELSE <<>>

\* JSON.parse of a token text: [ok |-> FALSE] stands for a thrown SyntaxError
JSONParse(text) ==
  IF Len(text) = 2 /\ text[1] = LB /\ text[2] = RB
    THEN [ok |-> TRUE, json |-> [x \in {} |-> JsUndefined]]
  ELSE IF Len(text) = 3 /\ text[1] = LB /\ text[3] = RB /\ text[2].t = "members"
    THEN [ok |-> TRUE, json |-> text[2].v]
  ELSE [ok |-> FALSE]

\* the defensive decode shared by every consumer:
\* JSON.parse(text.slice(text.indexOf("{"), text.lastIndexOf("}") + 1))
ExtractJson(text) ==
  JSONParse(Slice(text, IndexOf(text, LB), LastIndexOf(text, RB) + 1))

(* ============================== state ================================ *)
\* ControllerLayer.runPipeline: its locals, its position (pc), per step the
\* number of runAgent and selfCheckStep calls made, and the input last built
\* by buildStepInput and handed to runAgent
VARIABLES pc, pipelineSpec, stepIdx, attempt, attempts, pendingOutput,
          lastOutput, lastError, context, logs, status, failedStep, result,
          execCalls, checkCalls, stepInput

ctlVars == <<pc, pipelineSpec, stepIdx, attempt, attempts, pendingOutput,
             lastOutput, lastError, context, logs, status, failedStep, result,
             execCalls, checkCalls, stepInput>>

\* PlannerLayer: this.blueprints, the position of the plan call (ppc), its
\* locals, the tool_arbitration.json entries it appended, and the number of
\* synthesis and blueprint self-check calls it made
VARIABLES blueprints, ppc, taskSpec, candidate, blueprint, finalSteps, planResult,
          arbitrationLog, pendingText, storedAtStart, synthText, synthCalls, bpCheckCalls

planVars == <<blueprints, ppc, taskSpec, candidate, blueprint, finalSteps, planResult,
              arbitrationLog, pendingText, storedAtStart, synthText, synthCalls, bpCheckCalls>>

\* ExecutionEngine: its registry and cache, the registry of its
\* DynamicAgentBuilder, the files under agents/, agent_runs.json, the
\* position of the runAgent call (epc) and what the call did
VARIABLES engineRegistry, builderRegistry, agentFiles, cache, agentRuns, epc,
          agentName, instance, instCount, genCalls, calls, callInfo

engVars == <<engineRegistry, builderRegistry, agentFiles, cache, agentRuns, epc,
             agentName, instance, instCount, genCalls, calls, callInfo>>

\* core/TaskSpec.js: the outcome of the last `new TaskSpec(...)` (taskCall), the
\* PipelineSpec object under construction or constructed (pspec) with the
\* outcome of the last constructor or addStep call on it (pspecCall)
VARIABLES taskCall, pspec, pspecCall

specVars == <<taskCall, pspec, pspecCall>>

\* core/StateMachine.js: the fields of one PipelineStateMachine, the entries
\* it handed to appendMemory for pipeline_state.json and pipeline_steps.json,
\* and the clock read by new Date()
VARIABLES smState, currentStepId, startedAt, finishedAt, history,
          pipelineStateLog, pipelineStepsLog, now

smVars == <<smState, currentStepId, startedAt, finishedAt, history,
            pipelineStateLog, pipelineStepsLog, now>>

\* modules/MemoryEngine.js: the module-level set locks, the files under
\* memory/, and the writeMemory / appendMemory calls made so far, each with
\* the await it is at
VARIABLES locks, memFiles, writers

memVars == <<locks, memFiles, writers>>

\* PlannerLayer.plan calls in flight on one PlannerLayer (they share
\* this.blueprints, declared above): per call its type, the await it is at
\* and the blueprint its plan was built from; bpWrites lists the assignments
\* made to this.blueprints[type]; engCalls lists the getAgentInstance calls
\* in flight on one ExecutionEngine (they share its registries, files and
\* cache, declared above), each with the await it is at. plannerMem is
\* this.blueprints of each of several PlannerLayer objects, storeFile the
\* content of memory/pipeline_blueprints.json they share, and saves the
\* plan calls made on them with the await they, or their writeMemory, are at
VARIABLES planCalls, bpWrites, engCalls, plannerMem, storeFile, saves

raceVars == <<planCalls, bpWrites, engCalls, plannerMem, storeFile, saves>>

\* ExecutionEngine, second revision: the position of the runAgent call
\* (rpc), its locals (run), the number of calls made, the agent files, and
\* the entries handed to appendMemory for agent_runs.json and auto_heal.json
VARIABLES rpc, run, runs, executors, agentRunsLog, autoHealLog

healVars == <<rpc, run, runs, executors, agentRunsLog, autoHealLog>>

\* the Node process running the pipeline (proc) and the number of
\* unhandled-rejection warnings it has printed
VARIABLES proc, warned

procVars == <<proc, warned>>

\* the last call of ToolArbitration.decide made outside the planner: the
\* candidate list it was given, the entry it logged, the decision it
\* returned, and the agent ArbitrationLayer.arbitrate put in the step
VARIABLES arbCall

arbVars == <<arbCall>>

\* several runPipeline calls in flight on one ControllerLayer: conRuns lists
\* the calls, each with its plan, its locals, the object its `context`
\* names and the replies it has consumed; heap holds the context objects
VARIABLES conRuns, heap

conVars == <<conRuns, heap>>

\* runAION in task mode: where the call is (apc), the result of its task
\* flow, what recordTaskRun and storeAssistantMessage have written and
\* logged, the unawaited appendMemory, and what runAION returned
VARIABLES apc, aion

aionVars == <<apc, aion>>

\* what the actions of one component leave alone
ctlFrame == <<arbVars, conVars, aionVars, procVars, healVars, raceVars, planVars, engVars, specVars, smVars, memVars>>
planFrame == <<arbVars, conVars, aionVars, procVars, healVars, raceVars, ctlVars, engVars, specVars, smVars, memVars>>
engFrame == <<arbVars, conVars, aionVars, procVars, healVars, raceVars, ctlVars, planVars, specVars, smVars, memVars>>
specFrame == <<arbVars, conVars, aionVars, procVars, healVars, raceVars, ctlVars, planVars, engVars, smVars, memVars>>
smFrame == <<arbVars, conVars, aionVars, procVars, healVars, raceVars, ctlVars, planVars, engVars, specVars, memVars>>
memFrame == <<arbVars, conVars, aionVars, procVars, healVars, raceVars, ctlVars, planVars, engVars, specVars, smVars>>
raceFrame == <<arbVars, conVars, aionVars, procVars, healVars, ctlVars, engVars, specVars, smVars, memVars>>
healFrame == <<arbVars, conVars, aionVars, procVars, raceVars, ctlVars, planVars, engVars, specVars, smVars, memVars>>
\* what an action of runPipeline that calls appendMemory leaves alone
ctlAuditFrame == <<arbVars, conVars, aionVars, procVars, healVars, raceVars, planVars, engVars, specVars, smVars,
                   locks, memFiles>>
\* what a getAgentInstance call leaves alone besides engine state
engCallFrame == <<arbVars, conVars, aionVars, procVars, healVars, ctlVars, planVars, specVars, smVars, memVars>>
\* what a plan call and its writeMemory leave alone besides the lock set
storeFrame == <<arbVars, conVars, aionVars, procVars, healVars, ctlVars, planVars, engVars, specVars, smVars,
                memFiles, writers, planCalls, bpWrites, engCalls>>
\* what the runtime's handling of a rejected promise leaves alone
procFrame == <<arbVars, conVars, aionVars, healVars, raceVars, ctlVars, planVars, engVars, specVars, smVars,
               locks, memFiles>>

arbFrame == <<conVars, aionVars, procVars, healVars, raceVars, ctlVars, planVars, engVars, specVars, smVars,
              memVars>>

vars == <<procVars, ctlVars, planVars, engVars, specVars, smVars, memVars, raceVars, healVars,
          arbVars, conVars, aionVars>>

aionFrame == <<arbVars, conVars, procVars, healVars, raceVars, ctlVars, planVars, engVars,
               specVars, smVars, memVars>>

conFrame == <<arbVars, aionVars, procVars, healVars, raceVars, ctlVars, planVars, engVars, specVars,
              smVars, memVars>>

(* ===================== modules/MemoryEngine.js ====================== *)
MaxWriters == 2

\* file names given to writeMemory / appendMemory; safePath strips leading
\* separators, so two of the names denote the same file
StoreNames == {"agent_runs.json", "/agent_runs.json", "pipeline_runs.json"}

\* MemoryEngine.safePath: the file a name denotes
safePath(fileName) ==
  IF fileName = "/agent_runs.json" THEN "agent_runs.json" ELSE fileName

StorePaths == {safePath(f) : f \in StoreNames}

\* the content of a file: missing, a JSON array of entries, or anything
\* else (JSON that is no array, or text that does not parse)
FileMissing == [kind |-> "missing", entries |-> <<>>]
FileArray(es) == [kind |-> "array", entries |-> es]
FileOther == [kind |-> "other", entries |-> <<>>]

\* variant of acquireLock: the lock is taken without waiting for its release
acquireLock_NoWait(lk, fileName) ==
  [acquired |-> TRUE, locks |-> lk \cup {fileName}]

\* MemoryEngine.acquireLock, one pass of its loop: the lock is taken when the
\* name is not in locks, otherwise the caller awaits the 10 ms timer
acquireLock(lk, fileName) ==
  [acquired |-> fileName \notin lk, locks |-> lk \cup {fileName}]

\* variant of releaseLock: the name stays in the lock set
releaseLock_Leak(lk, fileName) == lk

\* MemoryEngine.releaseLock
releaseLock(lk, fileName) == lk \ {fileName}

\* one call of writeMemory / appendMemory and the await it is at
Writer(op, fileName, payload, at) ==
  [op |-> op, file |-> fileName, payload |-> payload, pc |-> at, existing |-> <<>>]

MemInit ==
  /\ locks = {}
  /\ memFiles = [p \in StorePaths |-> FileMissing]
  /\ writers = <<>>

\* appendMemory(fileName, entry), up to `await ensureMemoryDir()`; the entry
\* is identified by the number of the call
appendMemory(fileName) ==
  /\ Len(writers) < MaxWriters
  /\ writers' = Append(writers, Writer("append", fileName, Len(writers) + 1, "mkdir"))
  /\ UNCHANGED <<locks, memFiles>>
  /\ UNCHANGED memFrame

\* writeMemory(fileName, data), up to `await ensureMemoryDir()`
writeMemory(fileName) ==
  /\ Len(writers) < MaxWriters
  /\ writers' = Append(writers, Writer("write", fileName, Len(writers) + 1, "mkdir"))
  /\ UNCHANGED <<locks, memFiles>>
  /\ UNCHANGED memFrame

\* the writer w goes through one pass of acquireLock
TryLock(w) ==
  LET a == acquireLock(locks, writers[w].file)
  IN /\ locks' = a.locks
     /\ writers' = [writers EXCEPT ![w].pc =
                      IF ~a.acquired THEN "sleep"
                      ELSE IF writers[w].op = "append" THEN "read" ELSE "write"]

\* ensureMemoryDir settles (lines 84, 105): on a fault the call rejects
\* before the lock; otherwise acquireLock runs its first pass
ensureMemoryDir(w, ok) ==
  /\ w \in 1..Len(writers)
  /\ writers[w].pc = "mkdir"
  /\ IF ok
     THEN TryLock(w)
     ELSE /\ writers' = [writers EXCEPT ![w].pc = "rejected"]
          /\ UNCHANGED locks
  /\ UNCHANGED memFiles
  /\ UNCHANGED memFrame

\* the 10 ms timer of acquireLock fires (line 43): next pass of the loop
lockTimer(w) ==
  /\ w \in 1..Len(writers)
  /\ writers[w].pc = "sleep"
  /\ TryLock(w)
  /\ UNCHANGED memFiles
  /\ UNCHANGED memFrame

\* appendMemory lines 111-126: readFile settles, the entry is pushed onto
\* the array read (onto [] when the file is missing, unparsable or no array)
readFile(w) ==
  /\ w \in 1..Len(writers)
  /\ writers[w].pc = "read"
  /\ LET f == memFiles[safePath(writers[w].file)]
         existing == IF f.kind = "array" THEN f.entries ELSE <<>>
     IN writers' = [writers EXCEPT ![w].pc = "write",
                                   ![w].existing = Append(existing, writers[w].payload)]
  /\ UNCHANGED <<locks, memFiles>>
  /\ UNCHANGED memFrame

\* writeFile settles (lines 91, 127) and the finally block releases the
\* lock: the file holds the new text, or the write failed and left the file
\* as it was or cut short
writeFile(w, outcome) ==
  /\ w \in 1..Len(writers)
  /\ writers[w].pc = "write"
  /\ LET p == safePath(writers[w].file)
         text == IF writers[w].op = "append" THEN FileArray(writers[w].existing)
                 ELSE FileOther
     IN memFiles' = [memFiles EXCEPT ![p] =
                       CASE outcome = "written" -> text
                         [] outcome = "failed" -> @
                         [] OTHER -> FileOther]
  /\ locks' = releaseLock(locks, writers[w].file)
  /\ writers' = [writers EXCEPT ![w].pc = IF outcome = "written" THEN "resolved"
                                          ELSE "rejected"]
  /\ UNCHANGED memFrame

MemNext ==
  \/ \E fileName \in StoreNames : appendMemory(fileName)
  \/ \E fileName \in StoreNames : writeMemory(fileName)
  \/ \E w \in 1..Len(writers), ok \in BOOLEAN : ensureMemoryDir(w, ok)
  \/ \E w \in 1..Len(writers) : lockTimer(w)
  \/ \E w \in 1..Len(writers) : readFile(w)
  \/ \E w \in 1..Len(writers), outcome \in {"written", "failed", "cut"} : writeFile(w, outcome)

(* ======================= ControllerLayer ============================= *)
Outputs == {"out1", "out2"}

\* the value runAgent resolves to on attempt a, when it resolves: two
\* consecutive attempts of a step resolve to different values
OutputOf(a) == IF a % 2 = 1 THEN "out1" ELSE "out2"
ExecutorFaultMsg == "executor fault"
SelfCheckFailMsg == "Self-check basarisiz."

\* self-check replies the step oracle may give
StepCheckReplies ==
  { <<LB, Members([ok |-> JsBool(TRUE)]), RB>>,
    <<Prose, LB, Members([ok |-> JsBool(FALSE), reason |-> JsStr("bad")]), RB, Prose>>,
    <<LB, RB>>,
    <<Prose>>,
    <<LB, Members([ok |-> JsBool(FALSE)]), RB, Prose, RB>>,
    <<>> }

\* pipeline review replies
PipelineCheckReplies ==
  { <<LB, Members([ok |-> JsBool(TRUE), summary |-> JsStr("fine")]), RB>>,
    <<Prose, LB, Members([ok |-> JsBool(FALSE), summary |-> JsStr("poor")]), RB>>,
    <<LB, Members([summary |-> JsStr("no verdict")]), RB>>,
    <<Prose, RB, LB>> }

Retries == {JsUndefined} \cup {JsNum(n) : n \in 0..MaxRetry}

PlanStep(k, r) == [id |-> k, agent |-> "CodeAgent", retry |-> r]

\* the pipelineSpecs handed to runPipeline: steps step_1..step_n
PipelineSpecs ==
  UNION { { [steps |-> [k \in 1..n |-> PlanStep(k, rs[k])]] : rs \in [1..n -> Retries] }
          : n \in 0..MaxSteps }

\* const maxRetry = step.retry ?? 1
maxRetryOf(step) == Nullish(step.retry, JsNum(1)).n

\* variant of safeParseSelfCheckStep: an undecodable reply counts as a rejection
safeParseSelfCheckStep_Pessimistic(text) ==
  LET p == ExtractJson(text)
  IN IF p.ok
     THEN [ok |-> ToBoolean(Field(p.json, "ok")),
           reason |-> IF ToBoolean(Field(p.json, "reason"))
                      THEN Field(p.json, "reason").s ELSE ""]
     ELSE [ok |-> FALSE, reason |-> "Self-check parse fallback"]

\* ControllerLayer.safeParseSelfCheckStep
safeParseSelfCheckStep(text) ==
  LET p == ExtractJson(text)
  IN IF p.ok
     THEN [ok |-> ToBoolean(Field(p.json, "ok")),
           reason |-> IF ToBoolean(Field(p.json, "reason"))
                      THEN Field(p.json, "reason").s ELSE ""]
     ELSE [ok |-> TRUE, reason |-> "Self-check parse fallback"]

\* ControllerLayer.safeParseSelfCheckPipeline
safeParseSelfCheckPipeline(text, st) ==
  LET p == ExtractJson(text)
  IN IF p.ok
     THEN [ok |-> IF Field(p.json, "ok").ty = "boolean"
                  THEN Field(p.json, "ok").b ELSE st = "success",
           summary |-> IF ToBoolean(Field(p.json, "summary"))
                       THEN Field(p.json, "summary").s ELSE ""]
     ELSE [ok |-> st = "success", summary |-> "Pipeline self-check parse fallback."]

\* the locals of runPipeline as one record
RunState(p, k, a, atts, lo, le, ctx, lg, st, fs) ==
  [pc |-> p, stepIdx |-> k, attempt |-> a, attempts |-> atts,
   lastOutput |-> lo, lastError |-> le, context |-> ctx, logs |-> lg,
   status |-> st, failedStep |-> fs]

\* variant of CloseStep: a failed step's entry keeps no output
CloseStep_OutputOnSuccessOnly(spec, k, succ, atts, lo, le, ctx, lg) ==
  LET step == spec.steps[k]
      lg2 == Append(lg, [id |-> step.id, agent |-> step.agent,
                         attempts |-> atts, success |-> succ])
      ctx2 == (step.id :> [success |-> succ, output |-> IF succ THEN lo ELSE Null,
                           error |-> le]) @@ ctx
  IN [success |-> succ, context |-> ctx2, logs |-> lg2, id |-> step.id]

\* lines 107-122: close the step log, write the context entry, fail fast
CloseStep(spec, k, succ, atts, lo, le, ctx, lg) ==
  LET step == spec.steps[k]
      lg2 == Append(lg, [id |-> step.id, agent |-> step.agent,
                         attempts |-> atts, success |-> succ])
      ctx2 == (step.id :> [success |-> succ, output |-> lo, error |-> le]) @@ ctx
  IN [success |-> succ, context |-> ctx2, logs |-> lg2, id |-> step.id]

\* variant of EnterStep: the attempt loop tests its bound after the body, so
\* that every step is attempted at least once
EnterStep_AtLeastOnce(spec, k, ctx, lg) ==
  IF k > Len(spec.steps)
  THEN RunState("review", k, 0, <<>>, Null, Null, ctx, lg, "success", Null)
  ELSE RunState("exec", k, 1, <<>>, Null, Null, ctx, lg, "running", Null)

\* head of the for-of loop at step k (lines 39-53), run until the next await:
\* a step whose budget admits no attempt is closed at once as failed
EnterStep(spec, k, ctx, lg) ==
  IF k > Len(spec.steps)
  THEN RunState("review", k, 0, <<>>, Null, Null, ctx, lg, "success", Null)
  ELSE IF 1 <= maxRetryOf(spec.steps[k])
  THEN RunState("exec", k, 1, <<>>, Null, Null, ctx, lg, "running", Null)
  ELSE LET c == CloseStep(spec, k, FALSE, <<>>, Null, Null, ctx, lg)
       IN RunState("review", k, 0, <<>>, Null, Null, c.context, c.logs, "error", c.id)

\* variants of EndAttempt: a retry bound one short, a missing
\* `if (success) break`, a missing `break` after a failed step
EndAttempt_OffByOne(spec, k, a, atts, succ, lo, le, ctx, lg) ==
  IF ~succ /\ a + 1 < maxRetryOf(spec.steps[k])
  THEN RunState("exec", k, a + 1, atts, lo, le, ctx, lg, "running", Null)
  ELSE LET c == CloseStep(spec, k, succ, atts, lo, le, ctx, lg)
       IN IF succ
          THEN EnterStep(spec, k + 1, c.context, c.logs)
          ELSE RunState("review", k, a, atts, lo, le, c.context, c.logs, "error", c.id)

EndAttempt_NoBreak(spec, k, a, atts, succ, lo, le, ctx, lg) ==
  IF a + 1 <= maxRetryOf(spec.steps[k])
  THEN RunState("exec", k, a + 1, atts, lo, le, ctx, lg, "running", Null)
  ELSE LET c == CloseStep(spec, k, succ, atts, lo, le, ctx, lg)
       IN IF succ
          THEN EnterStep(spec, k + 1, c.context, c.logs)
          ELSE RunState("review", k, a, atts, lo, le, c.context, c.logs, "error", c.id)

EndAttempt_Continue(spec, k, a, atts, succ, lo, le, ctx, lg) ==
  IF ~succ /\ a + 1 <= maxRetryOf(spec.steps[k])
  THEN RunState("exec", k, a + 1, atts, lo, le, ctx, lg, "running", Null)
  ELSE LET c == CloseStep(spec, k, succ, atts, lo, le, ctx, lg)
           nx == EnterStep(spec, k + 1, c.context, c.logs)
       IN IF succ
          THEN nx
          ELSE [nx EXCEPT !.status = "error", !.failedStep = c.id]

\* variant of EndAttempt: a rejected attempt with budget left starts the
\* next step instead of the next attempt
EndAttempt_Overlap(spec, k, a, atts, succ, lo, le, ctx, lg) ==
  IF ~succ /\ a + 1 <= maxRetryOf(spec.steps[k])
  THEN EnterStep(spec, k + 1, ctx, lg)
  ELSE LET c == CloseStep(spec, k, succ, atts, lo, le, ctx, lg)
       IN IF succ
          THEN EnterStep(spec, k + 1, c.context, c.logs)
          ELSE RunState("review", k, a, atts, lo, le, c.context, c.logs, "error", c.id)

\* variant of EndAttempt: the attempt counter is not advanced
EndAttempt_NoIncrement(spec, k, a, atts, succ, lo, le, ctx, lg) ==
  IF ~succ /\ a <= maxRetryOf(spec.steps[k])
  THEN RunState("exec", k, a, atts, lo, le, ctx, lg, "running", Null)
  ELSE LET c == CloseStep(spec, k, succ, atts, lo, le, ctx, lg)
       IN IF succ
          THEN EnterStep(spec, k + 1, c.context, c.logs)
          ELSE RunState("review", k, a, atts, lo, le, c.context, c.logs, "error", c.id)

\* end of one attempt (lines 101-123): push the attempt record, then either
\* attempt again, or close the step and go on / abort
EndAttempt(spec, k, a, atts, succ, lo, le, ctx, lg) ==
  IF ~succ /\ a + 1 <= maxRetryOf(spec.steps[k])
  THEN RunState("exec", k, a + 1, atts, lo, le, ctx, lg, "running", Null)
  ELSE LET c == CloseStep(spec, k, succ, atts, lo, le, ctx, lg)
       IN IF succ
          THEN EnterStep(spec, k + 1, c.context, c.logs)
          ELSE RunState("review", k, a, atts, lo, le, c.context, c.logs, "error", c.id)

\* variant of buildStepInput: contextSnapshot is the context object itself
buildStepInput_Alias(stepId, ctx) ==
  [stepId |-> stepId, contextSnapshot |-> [live |-> TRUE, copy |-> ctx]]

\* ControllerLayer.buildStepInput: contextSnapshot is { ...context }, a new
\* object with the entries context has at the call
buildStepInput(stepId, ctx) ==
  [stepId |-> stepId, contextSnapshot |-> [live |-> FALSE, copy |-> ctx]]

NoInput == [stepId |-> 0, contextSnapshot |-> [live |-> FALSE, copy |-> <<>>]]

\* the locals after a stretch of the loop; where the stretch ends at
\* `await runAgent(...)`, the input of that attempt has been built (line 60)
SetRun(locals) ==
  \E r \in {locals} :
    /\ pc' = r.pc
    /\ stepInput' = IF r.pc = "exec"
                    THEN buildStepInput(pipelineSpec'.steps[r.stepIdx].id, r.context)
                    ELSE stepInput
    /\ stepIdx' = r.stepIdx
    /\ attempt' = r.attempt
    /\ attempts' = r.attempts
    /\ lastOutput' = r.lastOutput
    /\ lastError' = r.lastError
    /\ context' = r.context
    /\ logs' = r.logs
    /\ status' = r.status
    /\ failedStep' = r.failedStep

NoSpec == [steps |-> <<>>]
NoResult == [status |-> "none"]

CtlInit ==
  /\ pc = "idle"
  /\ pipelineSpec = NoSpec
  /\ stepIdx = 0
  /\ attempt = 0
  /\ attempts = <<>>
  /\ pendingOutput = Null
  /\ lastOutput = Null
  /\ lastError = Null
  /\ context = <<>>
  /\ logs = <<>>
  /\ status = "none"
  /\ failedStep = Null
  /\ result = NoResult
  /\ execCalls = <<>>
  /\ checkCalls = <<>>
  /\ stepInput = NoInput

\* runPipeline(taskSpec, pipelineSpec), lines 30-53, up to the first await;
\* context, logs and status are locals of the call, so a behaviour follows
\* one call
runPipeline(spec) ==
  /\ pc = "idle"
  /\ pipelineSpec' = spec
  /\ SetRun(EnterStep(spec, 1, <<>>, <<>>))
  /\ pendingOutput' = Null
  /\ result' = NoResult
  /\ execCalls' = [k \in 1..Len(spec.steps) |-> 0]
  /\ checkCalls' = [k \in 1..Len(spec.steps) |-> 0]
  /\ UNCHANGED ctlFrame

\* await this.executionEngine.runAgent(...), lines 59-69 and the catch 95-99;
\* runAgent has handed its entry to appendMemory("agent_runs.json") without
\* awaiting it
runAgentAwait(outcome) ==
  /\ pc = "exec"
  /\ pipelineSpec' = pipelineSpec
  /\ execCalls' = [execCalls EXCEPT ![stepIdx] = @ + 1]
  /\ IF outcome = "throw"
     THEN LET mr == maxRetryOf(pipelineSpec.steps[stepIdx])
              rec == [attempt |-> attempt, error |-> ExecutorFaultMsg,
                      result |-> IF attempt < mr THEN "error_retrying" ELSE "error_giveup"]
          IN /\ SetRun(EndAttempt(pipelineSpec, stepIdx, attempt, Append(attempts, rec),
                                  FALSE, lastOutput, ExecutorFaultMsg, context, logs))
             /\ pendingOutput' = Null
     ELSE /\ pc' = "check"
          /\ pendingOutput' = outcome
          /\ UNCHANGED <<stepIdx, attempt, attempts, lastOutput, lastError,
                         context, logs, status, failedStep, stepInput>>
  /\ UNCHANGED <<result, checkCalls>>
  /\ writers' = Append(writers, Writer("append", "agent_runs.json", Len(writers) + 1, "mkdir"))
  /\ UNCHANGED ctlAuditFrame

\* await this.selfCheckStep(...), lines 72-94
selfCheckStep(reply) ==
  /\ pc = "check"
  /\ pipelineSpec' = pipelineSpec
  /\ checkCalls' = [checkCalls EXCEPT ![stepIdx] = @ + 1]
  /\ \E sc \in {safeParseSelfCheckStep(reply)} :
       LET mr == maxRetryOf(pipelineSpec.steps[stepIdx])
           res == IF ~sc.ok /\ attempt < mr THEN "selfcheck_failed_retrying"
                  ELSE IF ~sc.ok /\ attempt >= mr THEN "selfcheck_failed_giveup"
                  ELSE "success"
           rec == [attempt |-> attempt, rawOutput |-> pendingOutput,
                   selfCheck |-> sc, result |-> res]
           lo == IF res = "selfcheck_failed_retrying" THEN lastOutput ELSE pendingOutput
           le == IF res = "selfcheck_failed_giveup" THEN SelfCheckFailMsg ELSE lastError
       IN SetRun(EndAttempt(pipelineSpec, stepIdx, attempt, Append(attempts, rec),
                            res = "success", lo, le, context, logs))
  /\ pendingOutput' = Null
  /\ UNCHANGED <<result, execCalls>>
  /\ UNCHANGED ctlFrame

\* variant of selfCheckPipeline: the review verdict overrides the status
selfCheckPipeline_Override(reply) ==
  /\ pc = "review"
  /\ pc' = "returned"
  /\ LET sc == safeParseSelfCheckPipeline(reply, status)
     IN result' = [status |-> IF sc.ok THEN "success" ELSE "error",
                   failedStep |-> failedStep, context |-> context,
                   logs |-> logs, selfCheck |-> sc]
  /\ UNCHANGED <<pipelineSpec, stepIdx, attempt, attempts, pendingOutput, lastOutput,
                 lastError, context, logs, status, failedStep, execCalls, checkCalls,
                 stepInput>>
  /\ writers' = Append(writers, Writer("append", "pipeline_runs.json", Len(writers) + 1, "mkdir"))
  /\ UNCHANGED ctlAuditFrame

\* await this.selfCheckPipeline(...), the unawaited
\* appendMemory("pipeline_runs.json") and the return, lines 125-166
selfCheckPipeline(reply) ==
  /\ pc = "review"
  /\ pc' = "returned"
  /\ result' = [status |-> status, failedStep |-> failedStep, context |-> context,
                logs |-> logs, selfCheck |-> safeParseSelfCheckPipeline(reply, status)]
  /\ UNCHANGED <<pipelineSpec, stepIdx, attempt, attempts, pendingOutput, lastOutput,
                 lastError, context, logs, status, failedStep, execCalls, checkCalls,
                 stepInput>>
  /\ writers' = Append(writers, Writer("append", "pipeline_runs.json", Len(writers) + 1, "mkdir"))
  /\ UNCHANGED ctlAuditFrame

CtlNext ==
  \/ \E spec \in PipelineSpecs : runPipeline(spec)
  \/ \E outcome \in {"throw", OutputOf(attempt)} : runAgentAwait(outcome)
  \/ \E reply \in StepCheckReplies : selfCheckStep(reply)
  \/ \E reply \in PipelineCheckReplies : selfCheckPipeline(reply)

(* ============ ControllerLayer.runPipeline, concurrent calls ========== *)
\* the runPipeline calls made on one ControllerLayer
Runners == {1, 2}

\* plans of the concurrent calls; their step ids coincide
ConSpecs ==
  { [steps |-> <<PlanStep(1, JsNum(1))>>],
    [steps |-> <<PlanStep(1, JsNum(2))>>],
    [steps |-> <<PlanStep(1, JsUndefined), PlanStep(2, JsNum(1))>>] }

ConStepReplies ==
  { <<LB, Members([ok |-> JsBool(TRUE)]), RB>>,
    <<LB, Members([ok |-> JsBool(FALSE)]), RB, Prose, RB>> }

ConReviewReplies ==
  { <<LB, Members([ok |-> JsBool(TRUE), summary |-> JsStr("fine")]), RB>> }

ConInit ==
  /\ conRuns = <<>>
  /\ heap = <<>>

\* variant of newContext: the context is one object kept by the controller
newContext_Shared(h) ==
  IF h = <<>> THEN [ref |-> 1, heap |-> <<<<>>>>] ELSE [ref |-> 1, heap |-> h]

\* const context = {} (line 33): a new object for every call
newContext(h) == [ref |-> Len(h) + 1, heap |-> Append(h, <<>>)]

\* the locals of a call after `await runAgent(...)` settled with outcome
\* (lines 59-69, catch 95-99, 101-123); ctx is the content of its context
execSettled(spec, rs, ctx, outcome) ==
  IF outcome = "throw"
  THEN LET mr == maxRetryOf(spec.steps[rs.stepIdx])
           rec == [attempt |-> rs.attempt, error |-> ExecutorFaultMsg,
                   result |-> IF rs.attempt < mr THEN "error_retrying" ELSE "error_giveup"]
       IN [run |-> EndAttempt(spec, rs.stepIdx, rs.attempt, Append(rs.attempts, rec),
                              FALSE, rs.lastOutput, ExecutorFaultMsg, ctx, rs.logs),
           pending |-> Null]
  ELSE [run |-> [rs EXCEPT !.pc = "check", !.context = ctx], pending |-> outcome]

\* the locals of a call after `await this.selfCheckStep(...)` settled with
\* reply (lines 72-94, 101-123)
checkSettled(spec, rs, ctx, pending, reply) ==
  LET mr == maxRetryOf(spec.steps[rs.stepIdx])
      sc == safeParseSelfCheckStep(reply)
      res == IF ~sc.ok /\ rs.attempt < mr THEN "selfcheck_failed_retrying"
             ELSE IF ~sc.ok /\ rs.attempt >= mr THEN "selfcheck_failed_giveup"
             ELSE "success"
      rec == [attempt |-> rs.attempt, rawOutput |-> pending,
              selfCheck |-> sc, result |-> res]
      lo == IF res = "selfcheck_failed_retrying" THEN rs.lastOutput ELSE pending
      le == IF res = "selfcheck_failed_giveup" THEN SelfCheckFailMsg ELSE rs.lastError
  IN [run |-> EndAttempt(spec, rs.stepIdx, rs.attempt, Append(rs.attempts, rec),
                         res = "success", lo, le, ctx, rs.logs),
      pending |-> Null]

\* a call in flight: run.context is not used, the context is heap[ref]
ConRun(spec, ref, rs, pending, trace) ==
  [spec |-> spec, ref |-> ref, run |-> [rs EXCEPT !.context = <<>>],
   pending |-> pending, trace |-> trace]

\* runPipeline(taskSpec, pipelineSpec) called while other calls are in
\* flight, up to its first await
conRunPipeline(spec) ==
  /\ Len(conRuns) < Cardinality(Runners)
  /\ LET made == newContext(heap)
         rs == EnterStep(spec, 1, made.heap[made.ref], <<>>)
     IN /\ heap' = [made.heap EXCEPT ![made.ref] = rs.context]
        /\ conRuns' = Append(conRuns, ConRun(spec, made.ref, rs, Null, <<>>))
  /\ UNCHANGED conFrame

\* `await runAgent(...)` of call c settles
conRunAgent(c, outcome) ==
  /\ c \in 1..Len(conRuns)
  /\ conRuns[c].run.pc = "exec"
  /\ LET r == conRuns[c]
         n == execSettled(r.spec, r.run, heap[r.ref], outcome)
     IN /\ heap' = [heap EXCEPT ![r.ref] = n.run.context]
        /\ conRuns' = [conRuns EXCEPT ![c] =
             ConRun(r.spec, r.ref, n.run, n.pending,
                    Append(r.trace, [at |-> "exec", v |-> outcome, reply |-> <<>>]))]
  /\ UNCHANGED conFrame

\* `await this.selfCheckStep(...)` of call c settles
conSelfCheckStep(c, reply) ==
  /\ c \in 1..Len(conRuns)
  /\ conRuns[c].run.pc = "check"
  /\ LET r == conRuns[c]
         n == checkSettled(r.spec, r.run, heap[r.ref], r.pending, reply)
     IN /\ heap' = [heap EXCEPT ![r.ref] = n.run.context]
        /\ conRuns' = [conRuns EXCEPT ![c] =
             ConRun(r.spec, r.ref, n.run, n.pending,
                    Append(r.trace, [at |-> "check", v |-> "", reply |-> reply]))]
  /\ UNCHANGED conFrame

\* `await this.selfCheckPipeline(...)` of call c settles and the call
\* returns (lines 125-166); result.context is the context object
conSelfCheckPipeline(c, reply) ==
  /\ c \in 1..Len(conRuns)
  /\ conRuns[c].run.pc = "review"
  /\ LET r == conRuns[c]
     IN conRuns' = [conRuns EXCEPT ![c] =
          ConRun(r.spec, r.ref, [r.run EXCEPT !.pc = "returned"], Null,
                 Append(r.trace, [at |-> "review", v |-> "", reply |-> reply]))]
  /\ UNCHANGED heap
  /\ UNCHANGED conFrame

ConNext ==
  \/ \E spec \in ConSpecs : conRunPipeline(spec)
  \/ \E c \in Runners, outcome \in {"throw"} \cup Outputs : conRunAgent(c, outcome)
  \/ \E c \in Runners, reply \in ConStepReplies : conSelfCheckStep(c, reply)
  \/ \E c \in Runners, reply \in ConReviewReplies : conSelfCheckPipeline(c, reply)

(* ============== runAION, task mode, and recordTaskRun ================ *)
\* results of runPipeline handed on by runTaskFlow
RunResults ==
  { [status |-> "success", failedStep |-> Null,
     context |-> (1 :> [success |-> TRUE, output |-> "out1", error |-> Null])],
    [status |-> "error", failedStep |-> 1,
     context |-> (1 :> [success |-> FALSE, output |-> Null, error |-> ExecutorFaultMsg])] }

\* what JSON.parse(readFileSync(episodic.json)) gives: an array, a value
\* that is no array, or it throws
EpisodicReads == {"array", "other", "throws"}

NoReturn == [mode |-> "none"]

PushFault == "data.push is not a function"

AionInit ==
  /\ apc = "idle"
  /\ aion = [pipelineResult |-> [status |-> "none"], written |-> {}, logged |-> <<>>,
             legacy |-> "none", returned |-> NoReturn]

\* MemoryWriter.appendEpisodic (MemoryWriter.js 31-57): a failed load is
\* caught and starts from [], data.push(...) of a loaded value that is no
\* array throws, a failed write is caught and logged
appendEpisodic(read, writeOk) ==
  IF read = "other" THEN [thrown |-> TRUE, written |-> {}, logged |-> <<>>]
  ELSE [thrown |-> FALSE,
        written |-> IF writeOk THEN {"episodic"} ELSE {},
        logged |-> (IF read = "throws" THEN <<"episodic load error">> ELSE <<>>)
                   \o (IF writeOk THEN <<>> ELSE <<"episodic write error">>)]

\* runAION's catch (part_014 147-159): the error is handed to appendMemory
\* and { mode: "error" } is returned
aionCatch(a) == [a EXCEPT !.returned = [mode |-> "error", error |-> PushFault]]

\* runAION with mode "task", lines 87-88: runTaskFlow has returned
runTaskFlow(pipelineResult) ==
  /\ apc = "idle"
  /\ apc' = "recordTaskRun"
  /\ aion' = [aion EXCEPT !.pipelineResult = pipelineResult]
  /\ UNCHANGED aionFrame

\* recordTaskRun up to its first await (part_010 292-325): the episodic
\* entry is written outside any try
recordEpisodic(read, writeOk) ==
  /\ apc = "recordTaskRun"
  /\ LET e == appendEpisodic(read, writeOk)
     IN IF e.thrown
        THEN /\ apc' = "returned"
             /\ aion' = aionCatch(aion)
        ELSE /\ apc' = "semantic"
             /\ aion' = [aion EXCEPT !.written = @ \cup e.written,
                                     !.logged = @ \o e.logged]
  /\ UNCHANGED aionFrame

\* await this.writer.appendSemantic(...) in its try (part_010 327-335), the
\* structured index in its try (337-358), and the appendMemory call that is
\* not awaited (360-367)
recordSemantic(semanticOk, structuredOk) ==
  /\ apc = "semantic"
  /\ apc' = "storeAssistantMessage"
  /\ aion' = [aion EXCEPT
       !.written = @ \cup (IF semanticOk THEN {"semantic"} ELSE {})
                     \cup (IF structuredOk THEN {"structured"} ELSE {}),
       !.logged = @ \o (IF semanticOk THEN <<>> ELSE <<"semantic error">>)
                    \o (IF structuredOk THEN <<>> ELSE <<"structured error">>),
       !.legacy = "pending"]
  /\ UNCHANGED aionFrame

\* await memoryIntegration.storeAssistantMessage(...) and the return
\* (part_014 96-101; part_010 240-263)
storeAssistantMessage(read, writeOk, semanticOk) ==
  /\ apc = "storeAssistantMessage"
  /\ apc' = "returned"
  /\ LET e == appendEpisodic(read, writeOk)
     IN IF e.thrown
        THEN aion' = aionCatch(aion)
        ELSE aion' = [aion EXCEPT
               !.logged = @ \o e.logged
                            \o (IF semanticOk THEN <<>> ELSE <<"semantic error">>),
               !.returned = [mode |-> "task", pipelineResult |-> aion.pipelineResult]]
  /\ UNCHANGED aionFrame

\* the appendMemory("long_term_task_runs.json") promise settles; nobody
\* awaits it, so a rejection is an unhandled rejection: a warning, or the
\* end of the process
legacySettled(outcome) ==
  /\ apc # "dead"
  /\ aion.legacy = "pending"
  /\ aion' = [aion EXCEPT !.legacy = outcome]
  /\ apc' = IF outcome = "crashed" THEN "dead" ELSE apc
  /\ UNCHANGED aionFrame

AionNext ==
  \/ \E pipelineResult \in RunResults : runTaskFlow(pipelineResult)
  \/ \E read \in EpisodicReads, writeOk \in BOOLEAN : recordEpisodic(read, writeOk)
  \/ \E semanticOk \in BOOLEAN, structuredOk \in BOOLEAN :
       recordSemantic(semanticOk, structuredOk)
  \/ \E read \in EpisodicReads, writeOk \in BOOLEAN, semanticOk \in BOOLEAN :
       storeAssistantMessage(read, writeOk, semanticOk)
  \/ \E outcome \in {"written", "warned", "crashed"} : legacySettled(outcome)

(* ======================== ToolArbitration ============================ *)
JsObj(o) == [ty |-> "object", o |-> o]

HeuristicConfidence == 60

defaultAgents ==
  <<"CodeAgent", "FileAgent", "FixAgent", "ResearchAgent", "PlanAgent",
    "PipelineCreatorAgent", "AgentCreatorAgent">>

\* a task type is a string; the table says which of the keywords tested by
\* type.includes(...) occur in it
TaskTypes == {"demo", "research_topic"}
TypeKeywords(type) ==
  CASE type = "research_topic" -> {"research"}
    [] type = "create_agent" -> {"create_agent"}
    [] OTHER -> {}

\* a goal is given by the set of keywords tested by goal.includes(...) it contains
Goals == {{}, {"dosya"}}
MessageTypes == {"", "planning"}

TaskSpecs == [type : TaskTypes, goal : Goals, messageType : MessageTypes]

\* ToolArbitration._heuristicDecision
heuristicDecision(task, agents, ctx) ==
  LET tk == TypeKeywords(task.type)
      goal == task.goal
      msgType == ctx.messageType
      has(name) == \E n \in 1..Len(agents) : agents[n] = name
      pick(name) == IF has(name) THEN name ELSE "CodeAgent"
      primary ==
        IF "create_agent" \in tk \/ "yeni agent" \in goal \/ msgType = "agent"
          THEN pick("AgentCreatorAgent")
        ELSE IF "create_pipeline" \in tk \/ "pipeline" \in goal \/ "akis olustur" \in goal
          THEN pick("PipelineCreatorAgent")
        ELSE IF "file" \in tk \/ msgType = "file_edit" \/ "dosya" \in goal \/ "file" \in goal
          THEN pick("FileAgent")
        ELSE IF "research" \in tk \/ msgType = "research" \/ "arastir" \in goal
                \/ "kiyasla" \in goal \/ "piyasa" \in goal
          THEN pick("ResearchAgent")
        ELSE IF msgType = "planning" \/ "design" \in tk
          THEN pick("PlanAgent")
        ELSE "CodeAgent"
  IN [primary |-> JsStr(primary),
      secondary |-> JsArr(SelectSeq(agents, LAMBDA a : a # primary)),
      reason |-> JsStr("Heuristic secimi"),
      confidence |-> HeuristicConfidence]

\* ToolArbitration._llmDecision, lines 174-185: the decoded reply, or null
llmDecisionOf(raw) ==
  LET p == ExtractJson(raw)
  IN IF p.ok THEN JsObj(p.json) ELSE JsNull

\* variant of _mergeDecisions: a parsed oracle decision always wins
mergeDecisions_TrustOracle(heuristic, llmDecision) ==
  IF llmDecision.ty # "object"
  THEN heuristic @@ [source |-> "heuristic_only"]
  ELSE LET llm == llmDecision.o
           conf == IF Field(llm, "confidence").ty = "number"
                   THEN Field(llm, "confidence").n ELSE HeuristicConfidence
       IN [primary |-> Field(llm, "primary"),
           secondary |-> IF Field(llm, "secondary").ty = "array"
                         THEN Field(llm, "secondary") ELSE heuristic.secondary,
           reason |-> IF ToBoolean(Field(llm, "reason"))
                      THEN Field(llm, "reason") ELSE heuristic.reason,
           confidence |-> conf,
           source |-> "llm_preferred"]

\* variant of _mergeDecisions: the oracle confidence is taken as reported
mergeDecisions_NoFloor(heuristic, llmDecision) ==
  IF ~ToBoolean(llmDecision) \/ ~ToBoolean(Field(llmDecision.o, "primary"))
  THEN heuristic @@ [source |-> "heuristic_only"]
  ELSE LET llm == llmDecision.o
           llmConf == IF Field(llm, "confidence").ty = "number"
                      THEN Field(llm, "confidence").n ELSE HeuristicConfidence
       IN IF llmConf < heuristic.confidence - 10
          THEN heuristic @@ [source |-> "heuristic_dominate"]
          ELSE [primary |-> Field(llm, "primary"),
                secondary |-> IF Field(llm, "secondary").ty = "array"
                              THEN Field(llm, "secondary") ELSE heuristic.secondary,
                reason |-> IF ToBoolean(Field(llm, "reason"))
                           THEN Field(llm, "reason") ELSE heuristic.reason,
                confidence |-> llmConf,
                source |-> "llm_preferred"]

\* ToolArbitration._mergeDecisions
mergeDecisions(heuristic, llmDecision) ==
  IF ~ToBoolean(llmDecision) \/ ~ToBoolean(Field(llmDecision.o, "primary"))
  THEN heuristic @@ [source |-> "heuristic_only"]
  ELSE LET llm == llmDecision.o
           llmConf == IF Field(llm, "confidence").ty = "number"
                      THEN Field(llm, "confidence").n ELSE HeuristicConfidence
       IN IF llmConf < heuristic.confidence
          THEN heuristic @@ [source |-> "heuristic_dominate"]
          ELSE [primary |-> IF ToBoolean(Field(llm, "primary"))
                            THEN Field(llm, "primary") ELSE heuristic.primary,
                secondary |-> IF Field(llm, "secondary").ty = "array"
                              THEN Field(llm, "secondary") ELSE heuristic.secondary,
                reason |-> IF ToBoolean(Field(llm, "reason"))
                           THEN Field(llm, "reason") ELSE heuristic.reason,
                confidence |-> Max(heuristic.confidence, llmConf),
                source |-> "llm_preferred"]

\* ToolArbitration.decide with the oracle reply raw: the entry appended to
\* tool_arbitration.json (heuristic, llmDecision, final); final is returned
decide(task, availableAgents, ctx, raw) ==
  LET agents == IF Len(availableAgents) > 0 THEN availableAgents ELSE defaultAgents
      heuristic == heuristicDecision(task, agents, ctx)
      llmDecision == llmDecisionOf(raw)
  IN [heuristic |-> heuristic, raw |-> raw, llmDecision |-> llmDecision,
      final |-> mergeDecisions(heuristic, llmDecision)]

\* replies of the arbitration oracle
DecideReplies ==
  { <<LB, Members([primary |-> JsStr("FixAgent"), secondary |-> JsArr(<<"CodeAgent">>),
                   reason |-> JsStr("fix it"), confidence |-> JsNum(90)]), RB>>,
    <<Prose, LB, Members([primary |-> JsStr("ResearchAgent"), secondary |-> JsArr(<<>>),
                          confidence |-> JsNum(59)]), RB>>,
    <<LB, Members([primary |-> JsStr("FileAgent"), secondary |-> JsStr("FixAgent"),
                   confidence |-> JsNum(60)]), RB>>,
    <<LB, Members([secondary |-> JsArr(<<"FixAgent">>), confidence |-> JsNum(99)]), RB>>,
    <<LB, Members([primary |-> JsStr("PlanAgent")]), RB, RB, Prose>>,
    <<LB, Members([primary |-> JsStr("PlanAgent"), reason |-> JsStr("plan first")]), RB>>,
    <<Prose>> }

(* ============ ToolArbitration.decide, candidate lists =============== *)
\* candidate lists handed to decide: none (the planner's call), the agent
\* of the step (ArbitrationLayer.arbitrate), and a longer list
CandidateLists == {<<>>, <<"FileAgent">>, <<"CodeAgent">>, <<"ResearchAgent", "PlanAgent">>}

StepAgents == {"FileAgent", "CodeAgent", "FixAgent"}

NoArbCall == [at |-> "none"]

ArbInit == arbCall = NoArbCall

\* the list decide chooses from (part_003:41-42)
agentsOf(availableAgents) ==
  IF Len(availableAgents) > 0 THEN availableAgents ELSE defaultAgents

\* decision?.primary || step.agent (part_010:71)
finalAgentOf(decision, stepAgent) ==
  IF ToBoolean(decision.primary) THEN decision.primary.s ELSE stepAgent

\* the entry decide appends to tool_arbitration.json (part_003:57-66)
ArbEntry(task, ctx, d) ==
  [type |-> task.type, goal |-> task.goal, context |-> ctx,
   heuristic |-> d.heuristic, llmDecision |-> d.llmDecision, final |-> d.final]

\* a call decide(taskSpec, availableAgents, context) answered by the oracle
\* with raw
toolArbDecide(task, availableAgents, ctx, raw) ==
  LET d == decide(task, availableAgents, ctx, raw)
  IN /\ arbCall' = [at |-> "decide", availableAgents |-> availableAgents,
                    entry |-> ArbEntry(task, ctx, d), decision |-> d.final]
     /\ UNCHANGED arbFrame

\* ArbitrationLayer.arbitrate, one iteration of the loop over the steps
\* (lines 59-84): decide with the step's agent as the only candidate
arbitrate_step(task, stepAgent, messageType, raw) ==
  LET ctx == [messageType |-> messageType]
      d == decide(task, <<stepAgent>>, ctx, raw)
  IN /\ arbCall' = [at |-> "arbitrate", availableAgents |-> <<stepAgent>>,
                    entry |-> ArbEntry(task, ctx, d), decision |-> d.final,
                    finalAgent |-> finalAgentOf(d.final, stepAgent)]
     /\ UNCHANGED arbFrame

ArbNext ==
  \/ \E task \in TaskSpecs, availableAgents \in CandidateLists, raw \in DecideReplies :
       toolArbDecide([goal |-> task.goal, type |-> task.type], availableAgents,
                     [messageType |-> task.messageType], raw)
  \/ \E task \in TaskSpecs, stepAgent \in StepAgents, raw \in DecideReplies :
       arbitrate_step([goal |-> task.goal, type |-> task.type], stepAgent,
                      task.messageType, raw)

(* ========================== PlannerLayer ============================= *)
\* an oracle text with its length class: compressIfLong passes a text that
\* is not long through and replaces a long one by a summary asked of the oracle
Text(toks, long) == [toks |-> toks, long |-> long]

BpStep(title, agent, retry) ==
  JsObj([title |-> JsStr(title), agent |-> JsStr(agent),
         inputTemplate |-> JsObj(<<>>), retry |-> retry])

\* PlannerLayer.safeParseBlueprint, the catch branch: the fixed fallback
FallbackBlueprint(typeName) ==
  JsObj([source |-> JsStr("fallback"), type |-> JsStr(typeName),
         steps |-> JsArr(<<BpStep("Research underlying task", "ResearchAgent", JsNum(1)),
                           BpStep("Generate final output", "CodeAgent", JsNum(1))>>)])

\* blueprints the oracle may write
OneStepBlueprint ==
  [source |-> JsStr("auto_generated"), type |-> JsStr("demo"),
   steps |-> JsArr(<<BpStep("A", "CodeAgent", JsNum(1))>>)]

CorrectedBlueprint ==
  [source |-> JsStr("auto_generated"), type |-> JsStr("demo"),
   steps |-> JsArr([k \in 1..MaxSteps |->
                      IF k = 1 THEN BpStep("B1", "CustomAgent", JsUndefined)
                      ELSE BpStep("B2", "FixAgent", JsNum(k))])]

SynthReplies ==
  { Text(<<LB, Members(OneStepBlueprint), RB>>, FALSE),
    Text(<<Prose, LB, Members(OneStepBlueprint), RB, Prose>>, TRUE),
    Text(<<Prose>>, FALSE),
    Text(<<LB, Prose, RB>>, FALSE),
    Text(<<LB, Members([note |-> JsStr("no steps")]), RB>>, FALSE) }

BpCheckReplies ==
  { Text(<<LB, Members([valid |-> JsBool(TRUE), blueprint |-> JsObj(OneStepBlueprint)]), RB>>, FALSE),
    Text(<<Prose, LB, Members([valid |-> JsBool(FALSE), blueprint |-> JsObj(CorrectedBlueprint)]), RB>>, FALSE),
    Text(<<LB, Members([valid |-> JsBool(TRUE)]), RB>>, FALSE),
    Text(<<Prose>>, FALSE),
    Text(<<Prose, Prose>>, TRUE) }

\* what the oracle may return as the summary of a long text
Summaries ==
  { <<LB, Members(OneStepBlueprint), RB>>,
    <<LB, Members([valid |-> JsBool(TRUE), blueprint |-> JsObj(CorrectedBlueprint)]), RB>>,
    <<Prose>> }

NoTask == [type |-> "", goal |-> {}, messageType |-> ""]
NoText == <<>>

\* this.blueprints[type]
Lookup(store, key) == IF key \in DOMAIN store THEN store[key] ELSE JsUndefined

\* PlannerLayer.safeParseBlueprint
safeParseBlueprint(text, typeName) ==
  LET p == ExtractJson(text)
  IN IF p.ok THEN JsObj(p.json) ELSE FallbackBlueprint(typeName)

\* PlannerLayer.safeParseSelfCheck
safeParseSelfCheck(text, original) ==
  LET p == ExtractJson(text)
  IN IF p.ok THEN p.json ELSE [valid |-> JsBool(TRUE), blueprint |-> original]

\* blueprint.steps of a blueprint value: the step list, or a thrown TypeError
StepsOf(bp) ==
  IF bp.ty = "object" /\ Field(bp.o, "steps").ty = "array"
  THEN [ok |-> TRUE, steps |-> Field(bp.o, "steps").a]
  ELSE [ok |-> FALSE]

PlanState(p, bp, fs, res) ==
  [ppc |-> p, blueprint |-> bp, finalSteps |-> fs, planResult |-> res]

NoPlan == [steps |-> <<>>, meta |-> "none"]

\* the pipelineSpec built at the end of generatePipelineFromBlueprint
PipelineOf(task, bp, fs) ==
  [steps |-> fs, meta |-> [blueprintSource |-> Field(bp.o, "source"), type |-> task.type]]

\* generatePipelineFromBlueprint up to its first await (lines 59-67)
StartGenerate(task, bp) ==
  LET st == StepsOf(bp)
  IN IF ~st.ok THEN PlanState("threw", bp, <<>>, NoPlan)
     ELSE IF Len(st.steps) = 0 THEN PlanState("returned", bp, <<>>, PipelineOf(task, bp, <<>>))
     ELSE PlanState("decide", bp, <<>>, NoPlan)

SetPlan(r) ==
  /\ ppc' = r.ppc
  /\ blueprint' = r.blueprint
  /\ finalSteps' = r.finalSteps
  /\ planResult' = r.planResult

PlanInit ==
  /\ blueprints = <<>>
  /\ ppc = "idle"
  /\ taskSpec = NoTask
  /\ candidate = JsUndefined
  /\ blueprint = JsUndefined
  /\ finalSteps = <<>>
  /\ planResult = NoPlan
  /\ arbitrationLog = <<>>
  /\ pendingText = NoText
  /\ storedAtStart = JsUndefined
  /\ synthText = NoText
  /\ synthCalls = 0
  /\ bpCheckCalls = 0

\* variant of plan: the stored blueprint is not consulted
plan_NoCache(task) ==
  /\ ppc \in {"idle", "returned", "threw"}
  /\ taskSpec' = task
  /\ storedAtStart' = Lookup(blueprints, task.type)
  /\ SetPlan(PlanState("synth", JsUndefined, <<>>, NoPlan))
  /\ candidate' = JsUndefined
  /\ arbitrationLog' = <<>>
  /\ pendingText' = NoText
  /\ synthText' = NoText
  /\ synthCalls' = 0
  /\ bpCheckCalls' = 0
  /\ UNCHANGED blueprints
  /\ UNCHANGED planFrame

\* PlannerLayer.plan, lines 37-47, up to the first await
plan(task) ==
  /\ ppc \in {"idle", "returned", "threw"}
  /\ taskSpec' = task
  /\ storedAtStart' = Lookup(blueprints, task.type)
  /\ LET blueprintExists == Lookup(blueprints, task.type)
     IN IF ToBoolean(blueprintExists)
        THEN SetPlan(StartGenerate(task, blueprintExists))
        ELSE SetPlan(PlanState("synth", JsUndefined, <<>>, NoPlan))
  /\ candidate' = JsUndefined
  /\ arbitrationLog' = <<>>
  /\ pendingText' = NoText
  /\ synthText' = NoText
  /\ synthCalls' = 0
  /\ bpCheckCalls' = 0
  /\ UNCHANGED blueprints
  /\ UNCHANGED planFrame

\* createBlueprintForNewType lines 174-177: decode, then ask for the self-check
ParseCandidate(toks) ==
  /\ candidate' = safeParseBlueprint(toks, taskSpec.type)
  /\ synthText' = toks
  /\ ppc' = "bpcheck"
  /\ pendingText' = NoText

\* createBlueprintForNewType: await runReasoner (line 165), compressIfLong
createBlueprintForNewType(reply) ==
  /\ ppc = "synth"
  /\ synthCalls' = synthCalls + 1
  /\ IF reply.long /\ reply.toks # <<>>
     THEN /\ ppc' = "synthCompress"
          /\ pendingText' = reply.toks
          /\ UNCHANGED <<candidate, synthText>>
     ELSE ParseCandidate(reply.toks)
  /\ UNCHANGED <<blueprints, taskSpec, blueprint, finalSteps, planResult,
                 arbitrationLog, storedAtStart, bpCheckCalls>>
  /\ UNCHANGED planFrame

\* ReasoningCompression.compress of the synthesis reply (line 168)
compressBlueprint(summary) ==
  /\ ppc = "synthCompress"
  /\ ParseCandidate(summary)
  /\ UNCHANGED <<blueprints, taskSpec, blueprint, finalSteps, planResult,
                 arbitrationLog, storedAtStart, synthCalls, bpCheckCalls>>
  /\ UNCHANGED planFrame

\* selfCheckBlueprint lines 240-249 and plan lines 47-53: the blueprint of
\* the decoded verdict is stored under the type and the pipeline is generated
AcceptBlueprint(toks) ==
  LET validated == Field(safeParseSelfCheck(toks, candidate), "blueprint")
  IN /\ blueprints' = (taskSpec.type :> validated) @@ blueprints
     /\ SetPlan(StartGenerate(taskSpec, validated))
     /\ pendingText' = NoText

\* selfCheckBlueprint: await runReasoner (line 233), compressIfLong
selfCheckBlueprint(reply) ==
  /\ ppc = "bpcheck"
  /\ bpCheckCalls' = bpCheckCalls + 1
  /\ IF reply.long /\ reply.toks # <<>>
     THEN /\ ppc' = "bpcheckCompress"
          /\ pendingText' = reply.toks
          /\ UNCHANGED <<blueprints, blueprint, finalSteps, planResult>>
     ELSE AcceptBlueprint(reply.toks)
  /\ UNCHANGED <<taskSpec, candidate, arbitrationLog, storedAtStart, synthText, synthCalls>>
  /\ UNCHANGED planFrame

\* ReasoningCompression.compress of the self-check reply (line 235)
compressSelfCheck(summary) ==
  /\ ppc = "bpcheckCompress"
  /\ AcceptBlueprint(summary)
  /\ UNCHANGED <<taskSpec, candidate, arbitrationLog, storedAtStart, synthText,
                 synthCalls, bpCheckCalls>>
  /\ UNCHANGED planFrame

\* variant of generatePipelineStep: the blueprint's agent is trusted verbatim
generatePipelineStep_Verbatim(raw) ==
  /\ ppc = "decide"
  /\ LET steps == StepsOf(blueprint).steps
         i == Len(finalSteps) + 1
         step == steps[i].o
         decision == decide([goal |-> taskSpec.goal, type |-> taskSpec.type],
                            <<>>, [messageType |-> taskSpec.messageType], raw)
         fs == Append(finalSteps,
                      [id |-> i, title |-> Field(step, "title"),
                       agent |-> Field(step, "agent"),
                       blueprintAgent |-> Field(step, "agent"),
                       retry |-> Nullish(Field(step, "retry"), JsNum(1))])
     IN /\ arbitrationLog' = Append(arbitrationLog, decision)
        /\ IF i < Len(steps)
           THEN SetPlan(PlanState("decide", blueprint, fs, NoPlan))
           ELSE SetPlan(PlanState("returned", blueprint, fs, PipelineOf(taskSpec, blueprint, fs)))
  /\ UNCHANGED <<blueprints, taskSpec, candidate, pendingText, storedAtStart,
                 synthText, synthCalls, bpCheckCalls>>
  /\ UNCHANGED planFrame

\* generatePipelineFromBlueprint, one loop iteration (lines 63-95): await
\* toolArbiter.decide, push the step; after the last one build and return
generatePipelineStep(raw) ==
  /\ ppc = "decide"
  /\ LET steps == StepsOf(blueprint).steps
         i == Len(finalSteps) + 1
         step == steps[i].o
         decision == decide([goal |-> taskSpec.goal, type |-> taskSpec.type],
                            <<>>, [messageType |-> taskSpec.messageType], raw)
         fs == Append(finalSteps,
                      [id |-> i, title |-> Field(step, "title"),
                       agent |-> decision.final.primary,
                       blueprintAgent |-> Field(step, "agent"),
                       retry |-> Nullish(Field(step, "retry"), JsNum(1))])
     IN /\ arbitrationLog' = Append(arbitrationLog, decision)
        /\ IF i < Len(steps)
           THEN SetPlan(PlanState("decide", blueprint, fs, NoPlan))
           ELSE SetPlan(PlanState("returned", blueprint, fs, PipelineOf(taskSpec, blueprint, fs)))
  /\ UNCHANGED <<blueprints, taskSpec, candidate, pendingText, storedAtStart,
                 synthText, synthCalls, bpCheckCalls>>
  /\ UNCHANGED planFrame

PlanNext ==
  \/ \E task \in TaskSpecs : plan(task)
  \/ \E reply \in SynthReplies : createBlueprintForNewType(reply)
  \/ \E summary \in Summaries : compressBlueprint(summary)
  \/ \E reply \in BpCheckReplies : selfCheckBlueprint(reply)
  \/ \E summary \in Summaries : compressSelfCheck(summary)
  \/ \E raw \in DecideReplies : generatePipelineStep(raw)

(* ============== PlannerLayer.plan, concurrent calls ================== *)
MaxPlans == 3

\* the PlannerLayer objects that share the blueprint file
PlannerIds == {1, 2}
BlueprintFile == "pipeline_blueprints.json"

\* the texts createBlueprintForNewType decodes: the oracle replies after
\* compressIfLong
SynthTexts == {r.toks : r \in SynthReplies}
BpCheckTexts == {r.toks : r \in BpCheckReplies}

\* what `await this.createBlueprintForNewType(taskSpec, convMeta)` resolves
\* to (lines 174-177, 240-249): the blueprint of the decoded self-check
\* verdict on the decoded candidate
NewBlueprint(typeName, synthReply, checkReply) ==
  Field(safeParseSelfCheck(checkReply, safeParseBlueprint(synthReply, typeName)), "blueprint")

PlanCall(typeName, at, bp, synthesized) ==
  [type |-> typeName, pc |-> at, builtFrom |-> bp, synthesized |-> synthesized]

\* generatePipelineFromBlueprint(taskSpec, bp, convMeta) reads bp.steps: the
\* plan is built from bp, or the call throws
GenerateFrom(bp) == IF StepsOf(bp).ok THEN "returned" ELSE "threw"

RaceInit ==
  /\ planCalls = <<>>
  /\ bpWrites = <<>>
  /\ engCalls = <<>>
  /\ plannerMem = [i \in PlannerIds |-> <<>>]
  /\ storeFile = <<>>
  /\ saves = <<>>

\* plan(taskSpec), lines 37-47: with a stored blueprint the plan is
\* generated from it; otherwise the call awaits createBlueprintForNewType
planBegin(typeName) ==
  /\ Len(planCalls) < MaxPlans
  /\ LET blueprintExists == Lookup(blueprints, typeName)
     IN planCalls' = Append(planCalls,
                            IF ToBoolean(blueprintExists)
                            THEN PlanCall(typeName, GenerateFrom(blueprintExists),
                                          blueprintExists, FALSE)
                            ELSE PlanCall(typeName, "create", JsUndefined, TRUE))
  /\ UNCHANGED <<blueprints, bpWrites, engCalls, plannerMem, storeFile, saves>>
  /\ UNCHANGED <<ppc, taskSpec, candidate, blueprint, finalSteps, planResult,
                 arbitrationLog, pendingText, storedAtStart, synthText, synthCalls,
                 bpCheckCalls>>
  /\ UNCHANGED raceFrame

\* plan, lines 47-53: the await resolves, the new blueprint is assigned to
\* this.blueprints[type] and saved, the plan is generated from it
planStore(c, synthReply, checkReply) ==
  /\ c \in 1..Len(planCalls)
  /\ planCalls[c].pc = "create"
  /\ LET typeName == planCalls[c].type
         newBlueprint == NewBlueprint(typeName, synthReply, checkReply)
     IN /\ blueprints' = (typeName :> newBlueprint) @@ blueprints
        /\ bpWrites' = Append(bpWrites, [type |-> typeName, blueprint |-> newBlueprint])
        /\ planCalls' = [planCalls EXCEPT ![c].pc = GenerateFrom(newBlueprint),
                                          ![c].builtFrom = newBlueprint]
  /\ UNCHANGED <<engCalls, plannerMem, storeFile, saves>>
  /\ UNCHANGED <<ppc, taskSpec, candidate, blueprint, finalSteps, planResult,
                 arbitrationLog, pendingText, storedAtStart, synthText, synthCalls,
                 bpCheckCalls>>
  /\ UNCHANGED raceFrame

PlanRaceNext ==
  \/ \E typeName \in TaskTypes : planBegin(typeName)
  \/ \E c \in 1..Len(planCalls), synthReply \in SynthTexts, checkReply \in BpCheckTexts :
       planStore(c, synthReply, checkReply)

(* ========== PlannerLayer._saveBlueprints, several planners ========== *)
MaxSaves == 2

\* plan(taskSpec) on planner inst for a type it holds no blueprint of (lines
\* 37-47): the call awaits createBlueprintForNewType. The constructor set
\* this.blueprints to the promise returned by readMemory (lines 19, 25-27),
\* an object without the stored types, so every planner starts empty
planNew(inst, typeName) ==
  /\ Len(saves) < MaxSaves
  /\ ~ToBoolean(Lookup(plannerMem[inst], typeName))
  /\ saves' = Append(saves, [inst |-> inst, type |-> typeName, pc |-> "create"])
  /\ UNCHANGED <<plannerMem, storeFile, locks>>
  /\ UNCHANGED storeFrame

\* plan lines 47-53: the new blueprint is assigned to this.blueprints[type]
\* and _saveBlueprints() calls writeMemory(fileName, this.blueprints) without
\* awaiting it (lines 29-31); writeMemory is at `await ensureMemoryDir()`
\* and plan goes on to return its pipeline
saveBlueprints(c, synthReply, checkReply) ==
  /\ c \in 1..Len(saves)
  /\ saves[c].pc = "create"
  /\ LET newBlueprint == NewBlueprint(saves[c].type, synthReply, checkReply)
     IN plannerMem' = [plannerMem EXCEPT ![saves[c].inst] =
                         (saves[c].type :> newBlueprint) @@ @]
  /\ saves' = [saves EXCEPT ![c].pc = "mkdir"]
  /\ UNCHANGED <<storeFile, locks>>
  /\ UNCHANGED storeFrame

\* writeMemory lines 84-87: ensureMemoryDir settles and acquireLock makes a
\* pass (the first, or the next after its 10 ms timer)
saveLock(c, ok) ==
  /\ c \in 1..Len(saves)
  /\ saves[c].pc \in {"mkdir", "sleep"}
  /\ saves[c].pc = "sleep" => ok
  /\ LET a == acquireLock(locks, BlueprintFile)
     IN IF ~ok
        THEN saves' = [saves EXCEPT ![c].pc = "failed"] /\ UNCHANGED locks
        ELSE /\ locks' = a.locks
             /\ saves' = [saves EXCEPT ![c].pc = IF a.acquired THEN "write" ELSE "sleep"]
  /\ UNCHANGED <<plannerMem, storeFile>>
  /\ UNCHANGED storeFrame

\* writeMemory lines 89-94: JSON.stringify(data) of the planner's
\* this.blueprints as it is now, writeFile, and the lock is released
saveWrite(c, written) ==
  /\ c \in 1..Len(saves)
  /\ saves[c].pc = "write"
  /\ storeFile' = IF written THEN plannerMem[saves[c].inst] ELSE storeFile
  /\ locks' = releaseLock(locks, BlueprintFile)
  /\ saves' = [saves EXCEPT ![c].pc = IF written THEN "done" ELSE "failed"]
  /\ UNCHANGED plannerMem
  /\ UNCHANGED storeFrame

StoreNext ==
  \/ \E inst \in PlannerIds, typeName \in TaskTypes : planNew(inst, typeName)
  \/ \E c \in 1..Len(saves), synthReply \in SynthTexts, checkReply \in BpCheckTexts :
       saveBlueprints(c, synthReply, checkReply)
  \/ \E c \in 1..Len(saves), ok \in BOOLEAN : saveLock(c, ok)
  \/ \E c \in 1..Len(saves), written \in BOOLEAN : saveWrite(c, written)

(* ============ ExecutionEngine, DynamicAgentBuilder, AgentRegistry ===== *)
MaxCalls == 3
MinCodeLength == 20

AgentNames == {"Unknown", "CodeAgent"}

\* `agents/${agentName}.js`
RelPath(name) == <<"agents", name>>
\* `${agentName}@${relativePath}`
CacheKey(name, path) == <<name, path>>

\* a source text: the length of its trimmed form and what importing it does:
\* "class" exports the agent class, "stub" is the templated fallback,
\* "noexport" loads without the class, "garbage" does not parse
Code(n, kind) == [trimLen |-> n, kind |-> kind]

\* DynamicAgentBuilder.fallbackAgentCode
fallbackAgentCode(name) == Code(600, "stub")

\* what runReasoner may return for the code request; the 39 characters of
\* its own failure message are among them
CodeReplies ==
  { Code(0, "garbage"), Code(19, "garbage"), Code(20, "garbage"),
    Code(39, "garbage"), Code(800, "class"), Code(800, "noexport") }

NoCode == Code(0, "none")

\* AgentRegistry.getPath: this.data.agents[agentName] || null
getPath(data, name) == IF name \in DOMAIN data THEN data[name] ELSE <<>>

\* AgentRegistry.register
register(data, name, path) ==
  IF name = "" \/ path = <<>> THEN data ELSE (name :> path) @@ data

\* DynamicAgentBuilder.generateAgentCode, lines 108-115
generateAgentCode(name, reply) ==
  IF reply.trimLen < MinCodeLength THEN fallbackAgentCode(name) ELSE reply

\* getAgentInstance lines 83-105 for a known path: the cached instance, a
\* new instance of the imported class, or a thrown load fault
LoadInstance(name, path, files, cch, n) ==
  LET key == CacheKey(name, path)
  IN IF key \in DOMAIN cch
     THEN [ok |-> TRUE, instance |-> cch[key], cache |-> cch, instCount |-> n]
     ELSE IF files[name].kind \in {"class", "stub"}
     THEN [ok |-> TRUE, instance |-> n + 1, cache |-> (key :> (n + 1)) @@ cch,
           instCount |-> n + 1]
     ELSE [ok |-> FALSE, instance |-> 0, cache |-> cch, instCount |-> n]

AuditEntry(name, st) == [agentName |-> name, status |-> st]

EngInit ==
  /\ engineRegistry = <<>>
  /\ builderRegistry = <<>>
  /\ agentFiles = [n \in AgentNames |-> NoCode]
  /\ cache = <<>>
  /\ agentRuns = <<>>
  /\ epc = "idle"
  /\ agentName = ""
  /\ instance = 0
  /\ instCount = 0
  /\ genCalls = [n \in AgentNames |-> 0]
  /\ calls = 0
  /\ callInfo = [registered |-> FALSE, cached |-> 0, synthesized |-> FALSE,
                 invoked |-> 0, outcome |-> "none"]

\* the call goes on with the located source: instantiate and await
\* instance.run, or audit the load fault and rethrow it (lines 36-37, 52-66)
Locate(name, path, files, info) ==
  LET l == LoadInstance(name, path, files, cache, instCount)
  IN /\ cache' = l.cache
     /\ instCount' = l.instCount
     /\ instance' = l.instance
     /\ IF l.ok
        THEN /\ epc' = "run"
             /\ callInfo' = info
             /\ UNCHANGED agentRuns
        ELSE /\ epc' = "done"
             /\ callInfo' = [info EXCEPT !.outcome = "throw"]
             /\ agentRuns' = Append(agentRuns, AuditEntry(name, "error"))

\* variant of runAgent: ensureAgentFile does not consult the registry
runAgent_Resynthesize(name) ==
  /\ epc \in {"idle", "done"}
  /\ calls < MaxCalls
  /\ calls' = calls + 1
  /\ agentName' = name
  /\ epc' = "generate"
  /\ callInfo' = [registered |-> name \in DOMAIN builderRegistry,
                  cached |-> IF CacheKey(name, RelPath(name)) \in DOMAIN cache
                             THEN cache[CacheKey(name, RelPath(name))] ELSE 0,
                  synthesized |-> FALSE, invoked |-> 0, outcome |-> "none"]
  /\ instance' = 0
  /\ UNCHANGED <<cache, instCount, agentRuns>>
  /\ UNCHANGED <<engineRegistry, builderRegistry, agentFiles, genCalls>>
  /\ UNCHANGED engFrame

\* ExecutionEngine.runAgent lines 32-36, getAgentInstance lines 76-81 and
\* ensureAgentFile lines 35-45, up to the first await on the oracle
runAgent(name) ==
  /\ epc \in {"idle", "done"}
  /\ calls < MaxCalls
  /\ calls' = calls + 1
  /\ agentName' = name
  /\ LET info == [registered |-> name \in DOMAIN builderRegistry,
                  cached |-> IF CacheKey(name, RelPath(name)) \in DOMAIN cache
                             THEN cache[CacheKey(name, RelPath(name))] ELSE 0,
                  synthesized |-> FALSE, invoked |-> 0, outcome |-> "none"]
         relativePath == getPath(engineRegistry, name)
         existingPath == getPath(builderRegistry, name)
     IN IF relativePath # <<>>
        THEN Locate(name, relativePath, agentFiles, info)
        ELSE IF existingPath # <<>>
        THEN Locate(name, existingPath, agentFiles, info)
        ELSE /\ epc' = "generate"
             /\ callInfo' = info
             /\ instance' = 0
             /\ UNCHANGED <<cache, instCount, agentRuns>>
  /\ UNCHANGED <<engineRegistry, builderRegistry, agentFiles, genCalls>>
  /\ UNCHANGED engFrame

\* ensureAgentFile lines 47-64: await generateAgentCode, write the file,
\* register the path; then getAgentInstance goes on with that path
ensureAgentFile(reply) ==
  /\ epc = "generate"
  /\ LET code == generateAgentCode(agentName, reply)
         relPath == RelPath(agentName)
         files == [agentFiles EXCEPT ![agentName] = code]
     IN /\ genCalls' = [genCalls EXCEPT ![agentName] = @ + 1]
        /\ agentFiles' = files
        /\ builderRegistry' = register(builderRegistry, agentName, relPath)
        /\ Locate(agentName, relPath, files, [callInfo EXCEPT !.synthesized = TRUE])
  /\ UNCHANGED <<engineRegistry, agentName, calls>>
  /\ UNCHANGED engFrame

\* await instance.run(input, context), lines 37-67: audit entry, then the
\* output is returned or the fault rethrown
instanceRun(outcome) ==
  /\ epc = "run"
  /\ outcome = "throw" => agentFiles[agentName].kind = "class"
  /\ epc' = "done"
  /\ callInfo' = [callInfo EXCEPT !.invoked = instance,
                                  !.outcome = IF outcome = "throw" THEN "throw" ELSE "output"]
  /\ agentRuns' = Append(agentRuns,
                         AuditEntry(agentName, IF outcome = "throw" THEN "error" ELSE "success"))
  /\ UNCHANGED <<engineRegistry, builderRegistry, agentFiles, cache, agentName,
                 instance, instCount, genCalls, calls>>
  /\ UNCHANGED engFrame

EngNext ==
  \/ \E name \in AgentNames : runAgent(name)
  \/ \E reply \in CodeReplies : ensureAgentFile(reply)
  \/ \E outcome \in {"throw", "out1"} : instanceRun(outcome)

(* ============ ExecutionEngine.getAgentInstance, concurrent calls ===== *)
MaxEngCalls == 3

EngCall(name, at, path, inst) ==
  [name |-> name, pc |-> at, path |-> path, instance |-> inst, built |-> FALSE]

\* getAgentInstance lines 83-90 for the path found: the cached instance is
\* returned, or the call awaits import(fileUrl)
AtCache(name, path) ==
  IF CacheKey(name, path) \in DOMAIN cache
  THEN EngCall(name, "returned", path, cache[CacheKey(name, path)])
  ELSE EngCall(name, "import", path, 0)

\* runAgent -> getAgentInstance lines 76-81 and ensureAgentFile lines 35-45:
\* with a registered path the call goes on to the cache; otherwise it awaits
\* mkdir and generateAgentCode
getAgentInstanceBegin(name) ==
  /\ Len(engCalls) < MaxEngCalls
  /\ LET relativePath == getPath(engineRegistry, name)
         existingPath == getPath(builderRegistry, name)
     IN engCalls' = Append(engCalls,
                           IF relativePath # <<>> THEN AtCache(name, relativePath)
                           ELSE IF existingPath # <<>> THEN AtCache(name, existingPath)
                           ELSE EngCall(name, "generate", <<>>, 0))
  /\ UNCHANGED <<planCalls, bpWrites, plannerMem, storeFile, saves>>
  /\ UNCHANGED engVars
  /\ UNCHANGED engCallFrame

\* ensureAgentFile lines 47-64: generateAgentCode resolves, the file is
\* written and the path registered; getAgentInstance goes on to the cache
agentFileWritten(c, reply) ==
  /\ c \in 1..Len(engCalls)
  /\ engCalls[c].pc = "generate"
  /\ LET name == engCalls[c].name
         relPath == RelPath(name)
     IN /\ genCalls' = [genCalls EXCEPT ![name] = @ + 1]
        /\ agentFiles' = [agentFiles EXCEPT ![name] = generateAgentCode(name, reply)]
        /\ builderRegistry' = register(builderRegistry, name, relPath)
        /\ engCalls' = [engCalls EXCEPT ![c] = AtCache(name, relPath)]
  /\ UNCHANGED <<planCalls, bpWrites, plannerMem, storeFile, saves>>
  /\ UNCHANGED <<engineRegistry, cache, agentRuns, epc, agentName, instance, instCount,
                 calls, callInfo>>
  /\ UNCHANGED engCallFrame

\* getAgentInstance lines 92-105: import resolves; a new instance of the
\* exported class is constructed and put in the cache, or the call throws
agentImported(c) ==
  /\ c \in 1..Len(engCalls)
  /\ engCalls[c].pc = "import"
  /\ LET name == engCalls[c].name
         key == CacheKey(name, engCalls[c].path)
     IN IF agentFiles[name].kind \in {"class", "stub"}
        THEN /\ instCount' = instCount + 1
             /\ cache' = (key :> (instCount + 1)) @@ cache
             /\ engCalls' = [engCalls EXCEPT ![c].pc = "returned",
                                             ![c].instance = instCount + 1,
                                             ![c].built = TRUE]
        ELSE /\ engCalls' = [engCalls EXCEPT ![c].pc = "threw"]
             /\ UNCHANGED <<instCount, cache>>
  /\ UNCHANGED <<planCalls, bpWrites, plannerMem, storeFile, saves>>
  /\ UNCHANGED <<engineRegistry, builderRegistry, agentFiles, agentRuns, epc, agentName,
                 instance, genCalls, calls, callInfo>>
  /\ UNCHANGED engCallFrame

EngRaceNext ==
  \/ \E name \in AgentNames : getAgentInstanceBegin(name)
  \/ \E c \in 1..Len(engCalls), reply \in CodeReplies : agentFileWritten(c, reply)
  \/ \E c \in 1..Len(engCalls) : agentImported(c)

(* ============== ExecutionEngine, second revision ===================== *)
MaxRuns == 2

\* the names bound by the import statements of the second revision (lines
\* 111-121); runReasoner, which autoHeal calls, is not among them
EngineImports ==
  {"path", "pathToFileURL", "appendMemory", "AgentRegistry", "DynamicAgentBuilder",
   "ToolArbitration", "ReasoningCompression", "RelevancyLayer"}

\* input.taskGoal: a string, given by the keywords it contains, or a value
\* that is truthy and no string
TaskGoals ==
  { [kind |-> "string", words |-> {}], [kind |-> "string", words |-> {"dosya"}],
    [kind |-> "number", words |-> {}] }

\* (taskSpec.goal || "").toLowerCase() of _heuristicDecision throws a
\* TypeError for a truthy goal that is no string
LowerCaseThrows(goal) == goal.kind # "string"

ExecutorFault == "executor fault"
LoadFault == "load fault"
CompressFault == "compress fault"
NotAFunction == "toLowerCase is not a function"
NoFault == "none"

\* the agents decide can name, and the state of agents/<name>.js
EngineAgents == {defaultAgents[n] : n \in 1..Len(defaultAgents)}

Run(name, goal) ==
  [agentName |-> name, taskGoal |-> goal, finalAgentName |-> "", fault |-> NoFault,
   faultAt |-> "none", outcome |-> "none", value |-> Null]

HealInit ==
  /\ rpc = "idle"
  /\ run = Run("", [kind |-> "string", words |-> {}])
  /\ runs = 0
  /\ executors = [n \in EngineAgents |-> IF n = "CodeAgent" THEN "file" ELSE "absent"]
  /\ agentRunsLog = <<>>
  /\ autoHealLog = <<>>

RunEntry(n, name, st) == [call |-> n, agentName |-> name, status |-> st]

\* variant of autoHeal: the suggested patch is taken as the repaired output
autoHeal_Apply(name, fault, reply) ==
  [fixedOutput |-> "patched", logged |-> <<[agent |-> name, error |-> fault,
                                            suggestion |-> reply]>>]

\* ExecutionEngine.autoHeal (lines 266-310): the oracle is asked for a
\* patch and the suggestion handed to appendMemory("auto_heal.json"); a
\* fault inside the try, the unbound runReasoner first of all, is swallowed;
\* fixedOutput is null either way
autoHeal(name, fault, reply) ==
  IF "runReasoner" \in EngineImports /\ reply # "throw"
  THEN [fixedOutput |-> Null, logged |-> <<[agent |-> name, error |-> fault,
                                            suggestion |-> reply]>>]
  ELSE [fixedOutput |-> Null, logged |-> <<>>]

\* the catch block of runAgent up to `await this.autoHeal(...)` (lines
\* 200-217): the error entry is handed to appendMemory and autoHeal called
Catch(fault, at) ==
  /\ rpc' = "heal"
  /\ run' = [run EXCEPT !.fault = fault, !.faultAt = at]
  /\ agentRunsLog' = Append(agentRunsLog, RunEntry(runs, run.finalAgentName, "error"))

\* runAgent(agentName, input, context), lines 153-157, up to
\* `await this.relevancy.analyze(input, context)`
runAgentHeal(name, goal) ==
  /\ rpc \in {"idle", "returned", "threw"}
  /\ runs < MaxRuns
  /\ runs' = runs + 1
  /\ rpc' = "relevancy"
  /\ run' = Run(name, goal)
  /\ UNCHANGED <<executors, agentRunsLog, autoHealLog>>
  /\ UNCHANGED healFrame

\* `await this.relevancy.analyze(input, context)` resolves (line 157; the
\* module RelevancyLayer.js is not part of the sources, its value is only
\* passed on); runAgent calls toolArbiter.decide
\* (lines 160-171), which computes the heuristic before its first await: a
\* TypeError there rejects decide, and runAgent, not yet inside its try,
\* rejects with it
analyze ==
  /\ rpc = "relevancy"
  /\ IF LowerCaseThrows(run.taskGoal)
     THEN /\ rpc' = "threw"
          /\ run' = [run EXCEPT !.fault = NotAFunction, !.faultAt = "decide",
                                !.outcome = "threw", !.value = NotAFunction]
     ELSE /\ rpc' = "arbitrate"
          /\ UNCHANGED run
  /\ UNCHANGED <<runs, executors, agentRunsLog, autoHealLog>>
  /\ UNCHANGED healFrame

\* decide resolves (line 160); finalAgentName = arbitration.primary (173);
\* getAgentInstance(finalAgentName, input) is awaited (176)
arbitrate(raw) ==
  /\ rpc = "arbitrate"
  /\ LET arbitration == decide([type |-> "", goal |-> run.taskGoal.words], <<>>,
                               [messageType |-> ""], raw).final
     IN run' = [run EXCEPT !.finalAgentName = arbitration.primary.s]
  /\ rpc' = "instance"
  /\ UNCHANGED <<runs, executors, agentRunsLog, autoHealLog>>
  /\ UNCHANGED healFrame

\* getAgentInstance settles (lines 231-260): a missing agent file is written
\* by the builder; the instance is returned, or the builder or the import
\* throws
getAgentInstance(outcome) ==
  /\ rpc = "instance"
  /\ outcome = "buildFault" => executors[run.finalAgentName] = "absent"
  /\ executors' = IF outcome = "buildFault" THEN executors
                  ELSE [executors EXCEPT ![run.finalAgentName] = "file"]
  /\ IF outcome = "instance"
     THEN /\ rpc' = "run"
          /\ UNCHANGED <<run, agentRunsLog>>
     ELSE Catch(LoadFault, "instance")
  /\ UNCHANGED <<runs, autoHealLog>>
  /\ UNCHANGED healFrame

\* `await instance.run(input, {...context, relevancy})` settles (line 177)
instanceRunHeal(outcome) ==
  /\ rpc = "run"
  /\ IF outcome = "throw"
     THEN Catch(ExecutorFault, "run")
     ELSE /\ rpc' = "compress"
          /\ run' = [run EXCEPT !.value = outcome]
          /\ UNCHANGED agentRunsLog
  /\ UNCHANGED <<runs, executors, autoHealLog>>
  /\ UNCHANGED healFrame

\* compressIfLong settles (line 180): the success entry is handed to
\* appendMemory and the output returned (182-198), or the fault is caught
compressIfLong(outcome) ==
  /\ rpc = "compress"
  /\ IF outcome = "throw"
     THEN Catch(CompressFault, "compress")
     ELSE /\ rpc' = "returned"
          /\ run' = [run EXCEPT !.outcome = "returned",
                                !.value = IF outcome = "summary" THEN "summary" ELSE @]
          /\ agentRunsLog' = Append(agentRunsLog,
                                    RunEntry(runs, run.finalAgentName, "success"))
  /\ UNCHANGED <<runs, executors, autoHealLog>>
  /\ UNCHANGED healFrame

\* `await this.autoHeal(finalAgentName, input, err)` settles (lines
\* 217-224): a fixedOutput that is not null is returned, otherwise err is
\* rethrown
healSettled(reply) ==
  /\ rpc = "heal"
  /\ LET healed == autoHeal(run.finalAgentName, run.fault, reply)
     IN /\ autoHealLog' = autoHealLog \o healed.logged
        /\ IF healed.fixedOutput # Null
           THEN /\ rpc' = "returned"
                /\ run' = [run EXCEPT !.outcome = "returned", !.value = healed.fixedOutput]
           ELSE /\ rpc' = "threw"
                /\ run' = [run EXCEPT !.outcome = "threw", !.value = run.fault]
  /\ UNCHANGED <<runs, executors, agentRunsLog>>
  /\ UNCHANGED healFrame

HealNext ==
  \/ \E name \in EngineAgents, goal \in TaskGoals : runAgentHeal(name, goal)
  \/ analyze
  \/ \E raw \in DecideReplies : arbitrate(raw)
  \/ \E outcome \in {"instance", "buildFault", "importFault"} : getAgentInstance(outcome)
  \/ \E outcome \in {"throw", "out1"} : instanceRunHeal(outcome)
  \/ \E outcome \in {"same", "summary", "throw"} : compressIfLong(outcome)
  \/ \E reply \in {"throw", "patch"} : healSettled(reply)

(* ====================== core/TaskSpec.js ============================ *)
\* JS value a || b
OrElse(a, b) == IF ToBoolean(a) THEN a ELSE b

\* Math.random().toString(36).slice(...) and Date.now().toString(36)
Rands == {"k3", "x9"}
Times == {1, 2}

\* generateId(prefix = "task")
generateId(ts, rand) == JsStr("task_" \o ToString(ts) \o "_" \o rand)

\* the argument objects handed to new TaskSpec(...)
TaskArgs ==
  [id : {JsUndefined, JsStr(""), JsStr("t1")},
   type : {JsUndefined, JsNull, JsStr(""), JsStr("demo")},
   goal : {JsUndefined, JsNull, JsStr(""), JsStr("X")},
   source : {JsUndefined, JsStr(""), JsStr("system")}]

NoTaskObject ==
  [id |-> JsUndefined, type |-> JsUndefined, goal |-> JsUndefined,
   source |-> JsUndefined, createdAt |-> 0]

\* variant of the TaskSpec constructor: the goal is not validated
TaskSpecConstructor_NoGoalCheck(arg, ts, rand) ==
  IF ~ToBoolean(arg.type)
  THEN [outcome |-> "thrown", message |-> "TaskSpec: 'type' zorunlu.",
        arg |-> arg, obj |-> NoTaskObject]
  ELSE [outcome |-> "constructed", message |-> "", arg |-> arg,
        obj |-> [id |-> OrElse(arg.id, generateId(ts, rand)),
                 type |-> arg.type, goal |-> arg.goal,
                 source |-> OrElse(IF arg.source.ty = "undefined" THEN JsStr("user")
                                   ELSE arg.source, JsStr("user")),
                 createdAt |-> ts]]

\* TaskSpec constructor, lines 28-47 (details and metadata, which default to
\* {}, are left out of the object)
TaskSpecConstructor(arg, ts, rand) ==
  IF ~ToBoolean(arg.type)
  THEN [outcome |-> "thrown", message |-> "TaskSpec: 'type' zorunlu.",
        arg |-> arg, obj |-> NoTaskObject]
  ELSE IF ~ToBoolean(arg.goal)
  THEN [outcome |-> "thrown", message |-> "TaskSpec: 'goal' zorunlu.",
        arg |-> arg, obj |-> NoTaskObject]
  ELSE [outcome |-> "constructed", message |-> "", arg |-> arg,
        obj |-> [id |-> OrElse(arg.id, generateId(ts, rand)),
                 type |-> arg.type, goal |-> arg.goal,
                 source |-> OrElse(IF arg.source.ty = "undefined" THEN JsStr("user")
                                   ELSE arg.source, JsStr("user")),
                 createdAt |-> ts]]

NoTaskCall ==
  [outcome |-> "none", message |-> "",
   arg |-> [id |-> JsUndefined, type |-> JsUndefined, goal |-> JsUndefined,
            source |-> JsUndefined],
   obj |-> NoTaskObject]

\* new TaskSpec(arg)
newTaskSpec(arg, ts, rand) ==
  /\ taskCall' = TaskSpecConstructor(arg, ts, rand)
  /\ UNCHANGED <<pspec, pspecCall>>
  /\ UNCHANGED specFrame

TaskSpecNext ==
  \E arg \in TaskArgs, ts \in Times, rand \in Rands : newTaskSpec(arg, ts, rand)

(* ==================== core/PipelineSpec.js ========================== *)
\* genStepId(index)
genStepId(index, rand) == JsStr("step_" \o ToString(index) \o "_" \o rand)

\* the step objects handed to PipelineSpec: with or without an id (one id is
\* the text genStepId can produce for index 1), with or without a numeric
\* retry; and a step that is no object
StepIds == {JsUndefined, JsStr(""), JsStr("a"), JsStr("b"), JsStr("step_1_k3")}
StepInputs ==
  {JsNull} \cup { [ty |-> "object", o |-> [id |-> i, retry |-> r]] :
                    i \in StepIds, r \in {JsUndefined, JsNum(2)} }

TaskIds == {JsUndefined, JsStr("t1")}

InvalidStepMsg == "PipelineSpec: step gecersiz."
DuplicateIdMsg == "PipelineSpec: step id cakismasi"
NoTaskIdMsg == "PipelineSpec: 'taskId' zorunlu."

\* PipelineSpec._normalizeStep; index counts from 0
normalizeStep(step, index, rand) ==
  IF step.ty # "object"
  THEN [ok |-> FALSE, step |-> JsNull]
  ELSE [ok |-> TRUE,
        step |-> [id |-> OrElse(Field(step.o, "id"), genStepId(index, rand)),
                  title |-> JsStr("Step #" \o ToString(index + 1)),
                  agent |-> OrElse(Field(step.o, "agent"), JsStr("CodeAgent")),
                  retry |-> IF Field(step.o, "retry").ty = "number"
                            THEN Field(step.o, "retry") ELSE JsNum(0)]]

\* PipelineSpec._validate: TRUE when it returns, FALSE when it throws
validate(steps) ==
  \A i \in 1..Len(steps) : \A j \in (i + 1)..Len(steps) : steps[i].id # steps[j].id

NoPipeline == [exists |-> FALSE, taskId |-> JsUndefined, steps |-> <<>>]
NoPipelineCall == [op |-> "none", thrown |-> "", given |-> <<>>]

\* variant of the PipelineSpec constructor: _validate is not called
PipelineSpecConstructor_NoValidate(taskId, steps, rands) ==
  LET norm == [i \in 1..Len(steps) |-> normalizeStep(steps[i], i - 1, rands[i])]
      made == [i \in 1..Len(steps) |-> norm[i].step]
  IN IF ~ToBoolean(taskId)
     THEN [thrown |-> NoTaskIdMsg, obj |-> NoPipeline]
     ELSE IF \E i \in 1..Len(steps) : ~norm[i].ok
     THEN [thrown |-> InvalidStepMsg, obj |-> NoPipeline]
     ELSE [thrown |-> "", obj |-> [exists |-> TRUE, taskId |-> taskId, steps |-> made]]

\* new PipelineSpec({taskId, steps}), lines 274-282: the constructed object,
\* or the message of the error thrown
PipelineSpecConstructor(taskId, steps, rands) ==
  LET norm == [i \in 1..Len(steps) |-> normalizeStep(steps[i], i - 1, rands[i])]
      made == [i \in 1..Len(steps) |-> norm[i].step]
  IN IF ~ToBoolean(taskId)
     THEN [thrown |-> NoTaskIdMsg, obj |-> NoPipeline]
     ELSE IF \E i \in 1..Len(steps) : ~norm[i].ok
     THEN [thrown |-> InvalidStepMsg, obj |-> NoPipeline]
     ELSE IF ~validate(made)
     THEN [thrown |-> DuplicateIdMsg, obj |-> NoPipeline]
     ELSE [thrown |-> "", obj |-> [exists |-> TRUE, taskId |-> taskId, steps |-> made]]

\* (a behaviour follows one PipelineSpec object)
newPipelineSpec(taskId, steps, rands) ==
  /\ pspecCall.op = "none"
  /\ LET c == PipelineSpecConstructor(taskId, steps, rands)
     IN /\ pspec' = c.obj
        /\ pspecCall' = [op |-> "new", thrown |-> c.thrown, given |-> steps]
  /\ UNCHANGED taskCall
  /\ UNCHANGED specFrame

\* PipelineSpec.addStep, lines 313-319: the step is pushed before _validate
\* runs
addStep(step, rand) ==
  /\ pspec.exists
  /\ Len(pspec.steps) <= MaxSteps
  /\ LET n == normalizeStep(step, Len(pspec.steps), rand)
         pushed == Append(pspec.steps, n.step)
     IN IF ~n.ok
        THEN /\ pspecCall' = [op |-> "addStep", thrown |-> InvalidStepMsg, given |-> <<step>>]
             /\ UNCHANGED pspec
        ELSE /\ pspec' = [pspec EXCEPT !.steps = pushed]
             /\ pspecCall' = [op |-> "addStep",
                              thrown |-> IF validate(pushed) THEN "" ELSE DuplicateIdMsg,
                              given |-> <<step>>]
  /\ UNCHANGED taskCall
  /\ UNCHANGED specFrame

StepLists == UNION { [1..n -> StepInputs] : n \in 0..MaxSteps }

PipelineSpecNext ==
  \/ \E taskId \in TaskIds, steps \in StepLists :
       \E rands \in [1..Len(steps) -> Rands] : newPipelineSpec(taskId, steps, rands)
  \/ \E step \in StepInputs, rand \in Rands : addStep(step, rand)

(* ==================== core/StateMachine.js ========================== *)
MaxTime == 4

VALID_STATES == {"idle", "running", "paused", "completed", "failed"}

\* step ids given to stepBegin / stepEnd
TrackedSteps == {"s1", "s2"}

\* a timestamp field that is null is 0; the clock starts at 1
NoTime == 0

Info(st, fin, reason) == [startedAt |-> st, finishedAt |-> fin, reason |-> reason]

\* variant of _transition: prev is read after the state is set
transition_FromAfter(next, info) ==
  LET evt == [from |-> next, to |-> next, ts |-> now, info |-> info]
  IN /\ next \in VALID_STATES
     /\ smState' = next
     /\ history' = Append(history, evt)
     /\ pipelineStateLog' = Append(pipelineStateLog, evt)

\* PipelineStateMachine._transition, lines 147-169, for a valid next state:
\* set the state, push the event, hand it to appendMemory
transition(next, info) ==
  LET evt == [from |-> smState, to |-> next, ts |-> now, info |-> info]
  IN /\ next \in VALID_STATES
     /\ smState' = next
     /\ history' = Append(history, evt)
     /\ pipelineStateLog' = Append(pipelineStateLog, evt)

Tick ==
  /\ now <= MaxTime
  /\ now' = now + 1

SmInit ==
  /\ smState = "idle"
  /\ currentStepId = Null
  /\ startedAt = NoTime
  /\ finishedAt = NoTime
  /\ history = <<>>
  /\ pipelineStateLog = <<>>
  /\ pipelineStepsLog = <<>>
  /\ now = 1

\* variant of start: no guard on the state
start_Unguarded ==
  /\ Tick
  /\ startedAt' = now
  /\ transition("running", Info(now, NoTime, ""))
  /\ UNCHANGED <<currentStepId, finishedAt, pipelineStepsLog>>
  /\ UNCHANGED smFrame

\* start(), lines 171-175
start ==
  /\ Tick
  /\ IF smState # "idle"
     THEN UNCHANGED <<smState, startedAt, history, pipelineStateLog>>
     ELSE /\ startedAt' = now
          /\ transition("running", Info(now, NoTime, ""))
  /\ UNCHANGED <<currentStepId, finishedAt, pipelineStepsLog>>
  /\ UNCHANGED smFrame

\* pause(reason), lines 177-180
pause ==
  /\ Tick
  /\ IF smState # "running"
     THEN UNCHANGED <<smState, history, pipelineStateLog>>
     ELSE transition("paused", Info(NoTime, NoTime, "pause"))
  /\ UNCHANGED <<currentStepId, startedAt, finishedAt, pipelineStepsLog>>
  /\ UNCHANGED smFrame

\* resume(), lines 182-185
resume ==
  /\ Tick
  /\ IF smState # "paused"
     THEN UNCHANGED <<smState, history, pipelineStateLog>>
     ELSE transition("running", Info(NoTime, NoTime, "resume"))
  /\ UNCHANGED <<currentStepId, startedAt, finishedAt, pipelineStepsLog>>
  /\ UNCHANGED smFrame

\* stepBegin(stepId), lines 187-196
stepBegin(stepId) ==
  /\ Tick
  /\ currentStepId' = stepId
  /\ pipelineStepsLog' = Append(pipelineStepsLog,
                                [stepId |-> stepId, event |-> "begin", status |-> ""])
  /\ UNCHANGED <<smState, startedAt, finishedAt, history, pipelineStateLog>>
  /\ UNCHANGED smFrame

\* stepEnd(stepId, status), lines 198-214; status 'error' calls fail
stepEnd(stepId, st) ==
  /\ Tick
  /\ currentStepId' = IF currentStepId = stepId THEN Null ELSE currentStepId
  /\ pipelineStepsLog' = Append(pipelineStepsLog,
                                [stepId |-> stepId, event |-> "end", status |-> st])
  /\ IF st = "error"
     THEN /\ finishedAt' = now
          /\ transition("failed", Info(NoTime, now, "step failed"))
     ELSE UNCHANGED <<smState, finishedAt, history, pipelineStateLog>>
  /\ UNCHANGED startedAt
  /\ UNCHANGED smFrame

\* complete(), lines 216-219
complete ==
  /\ Tick
  /\ finishedAt' = now
  /\ transition("completed", Info(NoTime, now, ""))
  /\ UNCHANGED <<currentStepId, startedAt, pipelineStepsLog>>
  /\ UNCHANGED smFrame

\* fail(reason), lines 221-227
fail ==
  /\ Tick
  /\ finishedAt' = now
  /\ transition("failed", Info(NoTime, now, "fail"))
  /\ UNCHANGED <<currentStepId, startedAt, pipelineStepsLog>>
  /\ UNCHANGED smFrame

SmNext ==
  \/ start
  \/ pause
  \/ resume
  \/ \E stepId \in TrackedSteps : stepBegin(stepId)
  \/ \E stepId \in TrackedSteps, st \in {"success", "error"} : stepEnd(stepId, st)
  \/ complete
  \/ fail

(* ================= audit writes of a pipeline run ==================== *)
ProcInit ==
  /\ proc = "up"
  /\ warned = 0

\* an appendMemory promise nobody awaits or catches has rejected: the
\* runtime prints a warning and goes on, or raises the rejection as an
\* uncaught exception and ends the process, depending on its version and
\* its --unhandled-rejections mode
unhandledRejection(w, mode) ==
  /\ w \in 1..Len(writers)
  /\ writers[w].pc = "rejected"
  /\ writers' = [writers EXCEPT ![w].pc = "reported"]
  /\ IF mode = "throw"
     THEN /\ proc' = "exited"
          /\ UNCHANGED warned
     ELSE /\ warned' = warned + 1
          /\ UNCHANGED proc
  /\ UNCHANGED procFrame

\* the runs followed together with their audit writes: one step, attempted
\* once (no retry given) or up to twice
AuditSpecs == { [steps |-> <<PlanStep(1, r)>>] : r \in {JsUndefined, JsNum(2)} }

\* the steps of the process while it is up: the run, the appendMemory calls
\* it has started, and the runtime's handling of their rejections
AuditNext ==
  \/ \E spec \in AuditSpecs : proc = "up" /\ runPipeline(spec)
  \/ \E outcome \in {"throw", OutputOf(attempt)} : proc = "up" /\ runAgentAwait(outcome)
  \/ \E reply \in StepCheckReplies : proc = "up" /\ selfCheckStep(reply)
  \/ \E reply \in PipelineCheckReplies : proc = "up" /\ selfCheckPipeline(reply)
  \/ \E w \in 1..Len(writers), ok \in BOOLEAN : proc = "up" /\ ensureMemoryDir(w, ok)
  \/ \E w \in 1..Len(writers) : proc = "up" /\ lockTimer(w)
  \/ \E w \in 1..Len(writers) : proc = "up" /\ readFile(w)
  \/ \E w \in 1..Len(writers), outcome \in {"written", "failed", "cut"} :
       proc = "up" /\ writeFile(w, outcome)
  \/ \E w \in 1..Len(writers), mode \in {"warn", "throw"} :
       proc = "up" /\ unhandledRejection(w, mode)

(* ========================= specifications ============================ *)
SpecInit ==
  /\ taskCall = NoTaskCall
  /\ pspec = NoPipeline
  /\ pspecCall = NoPipelineCall

Init == CtlInit /\ PlanInit /\ EngInit /\ SpecInit /\ SmInit /\ MemInit /\ RaceInit /\ HealInit
        /\ ProcInit /\ ArbInit /\ ConInit /\ AionInit

SpecController == Init /\ [][CtlNext]_vars

\* a run followed to its end: every plan and every executor outcome, the
\* step oracle accepting or rejecting, the review oracle answering
CtlRunNext ==
  \/ \E spec \in PipelineSpecs : runPipeline(spec)
  \/ \E outcome \in {"throw", OutputOf(attempt)} : runAgentAwait(outcome)
  \/ \E reply \in ConStepReplies : selfCheckStep(reply)
  \/ \E reply \in ConReviewReplies : selfCheckPipeline(reply)

\* every executor call and every oracle call of the run returns or throws
CtlFairness ==
  /\ WF_vars(\E outcome \in {"throw", OutputOf(attempt)} : runAgentAwait(outcome))
  /\ WF_vars(\E reply \in ConStepReplies : selfCheckStep(reply))
  /\ WF_vars(\E reply \in ConReviewReplies : selfCheckPipeline(reply))

SpecControllerFair == Init /\ [][CtlRunNext]_vars /\ CtlFairness

SpecPlanner == Init /\ [][PlanNext]_vars

SpecEngine == Init /\ [][EngNext]_vars

SpecTaskSpec == Init /\ [][TaskSpecNext]_vars

SpecPipelineSpec == Init /\ [][PipelineSpecNext]_vars

SpecStateMachine == Init /\ [][SmNext]_vars

SpecMemory == Init /\ [][MemNext]_vars

\* the event loop runs every timer that is due and every file operation of
\* a call terminates
MemFairness ==
  \A w \in 1..MaxWriters :
    /\ WF_vars(\E ok \in BOOLEAN : ensureMemoryDir(w, ok))
    /\ WF_vars(lockTimer(w))
    /\ WF_vars(readFile(w))
    /\ WF_vars(\E outcome \in {"written", "failed", "cut"} : writeFile(w, outcome))

SpecMemoryFair == Init /\ [][MemNext]_vars /\ MemFairness

SpecPlannerCalls == Init /\ [][PlanRaceNext]_vars

SpecEngineHeal == Init /\ [][HealNext]_vars

SpecEngineCalls == Init /\ [][EngRaceNext]_vars

SpecBlueprintStore == Init /\ [][StoreNext]_vars

SpecAudit == Init /\ [][AuditNext]_vars

SpecArbitration == Init /\ [][ArbNext]_vars

SpecControllerCalls == Init /\ [][ConNext]_vars

SpecAion == Init /\ [][AionNext]_vars

(* ---------------- properties of the Run Controller ------------------ *)
IsFault(a) == "error" \in DOMAIN a
IsChecked(a) == "selfCheck" \in DOMAIN a

\* the attempts were all executor faults
AllFaults(atts) == \A n \in 1..Len(atts) : IsFault(atts[n])

\* the executor never threw, the self-check rejected every attempt but the
\* last and accepted the last
AcceptPattern(atts) ==
  /\ Len(atts) >= 1
  /\ \A n \in 1..Len(atts) : IsChecked(atts[n])
  /\ \A n \in 1..(Len(atts) - 1) : ~atts[n].selfCheck.ok
  /\ atts[Len(atts)].selfCheck.ok

\* C1: a step with step.retry = N whose executor throws on every invocation
\* is invoked exactly N times, has exactly N attempt records in its log, is
\* recorded in the context with success=false, and the run returns status
\* 'error' with failedStep equal to that step's id.
C1_ExactlyNAttempts ==
  pc = "returned" =>
    /\ \A j \in 1..Len(pipelineSpec.steps) : execCalls[j] > 0 => j <= Len(result.logs)
    /\ \A j \in 1..Len(result.logs) :
         LET step == pipelineSpec.steps[j]
             lg == result.logs[j]
         IN (step.retry.ty = "number" /\ AllFaults(lg.attempts)) =>
              /\ lg.id = step.id
              /\ execCalls[j] = step.retry.n
              /\ Len(lg.attempts) = step.retry.n
              /\ step.id \in DOMAIN result.context
              /\ result.context[step.id].success = FALSE
              /\ result.status = "error"
              /\ result.failedStep = step.id

C1_Witness ==
  /\ pc = "returned"
  /\ Len(result.logs) = 1
  /\ pipelineSpec.steps[1].retry = JsNum(2)
  /\ Len(result.logs[1].attempts) = 2
  /\ AllFaults(result.logs[1].attempts)
  /\ execCalls[1] = 2

\* the attempt history of the current step after a controller action
AttemptsAfter == IF Len(logs') > Len(logs) THEN logs'[Len(logs) + 1].attempts ELSE attempts'

\* C2: when the self-check rejects attempts 1..N-1 and accepts attempt N
\* (N within the budget, the executor never throwing), the step is recorded
\* as successful after exactly N attempts and the run moves on to the next
\* step of the plan, or ends with status 'success' after the last step.
C2_AcceptedStepProceeds ==
  [][ (pc = "check" /\ AcceptPattern(AttemptsAfter)) =>
        LET id == pipelineSpec.steps[stepIdx].id
            n == Len(logs) + 1
        IN /\ Len(logs') >= n
           /\ logs'[n].id = id
           /\ logs'[n].success
           /\ Len(logs'[n].attempts) = attempt
           /\ execCalls'[stepIdx] = attempt
           /\ checkCalls'[stepIdx] = attempt
           /\ id \in DOMAIN context'
           /\ context'[id].success
           /\ stepIdx' = stepIdx + 1
           /\ IF stepIdx < Len(pipelineSpec.steps)
              THEN IF Nullish(pipelineSpec.steps[stepIdx + 1].retry, JsNum(1)).n >= 1
                   THEN /\ pc' = "exec" /\ attempt' = 1 /\ status' = "running"
                        /\ Len(logs') = n
                   ELSE /\ Len(logs') = n + 1
                        /\ logs'[n + 1].id = pipelineSpec.steps[stepIdx + 1].id
                        /\ logs'[n + 1].attempts = <<>>
              ELSE /\ pc' = "review" /\ status' = "success" /\ failedStep' = Null
                   /\ Len(logs') = n ]_vars

\* the self-check rejected attempt 1 and accepted attempt 2 of step 1, and
\* the run is at the first attempt of step 2
C2_Witness ==
  /\ pc = "exec"
  /\ stepIdx = 2
  /\ attempt = 1
  /\ Len(logs) = 1
  /\ Len(logs[1].attempts) = 2
  /\ AcceptPattern(logs[1].attempts)
  /\ logs[1].success

\* C3: once a step ends unsuccessful, neither the executor nor the step
\* self-check is invoked for any later step, and context and logs (also the
\* returned ones) hold no entry for a later step.
C3_FailFast ==
  \A j \in 1..Len(logs) :
    ~logs[j].success =>
      /\ Len(logs) = j
      /\ pc \in {"review", "returned"}
      /\ \A m \in (j + 1)..Len(pipelineSpec.steps) :
           /\ execCalls[m] = 0
           /\ checkCalls[m] = 0
           /\ pipelineSpec.steps[m].id \notin DOMAIN context
      /\ pc = "returned" =>
           /\ Len(result.logs) = j
           /\ \A m \in (j + 1)..Len(pipelineSpec.steps) :
                pipelineSpec.steps[m].id \notin DOMAIN result.context

C3_Witness ==
  /\ pc = "returned"
  /\ Len(pipelineSpec.steps) = 2
  /\ Len(result.logs) = 1
  /\ ~result.logs[1].success
  /\ Len(result.logs[1].attempts) = 2
  /\ DOMAIN result.context = {1}

\* C10: the status and failedStep returned by runPipeline are those fixed by
\* the step loop (error and the failed step's id when a step failed, success
\* and no failed step otherwise), whatever the review oracle replied.
C10_ReviewIsAdvisory ==
  pc = "returned" =>
    LET failed == {j \in 1..Len(logs) : ~logs[j].success}
    IN /\ result.logs = logs
       /\ IF failed = {}
          THEN result.status = "success" /\ result.failedStep = Null
          ELSE /\ result.status = "error"
               /\ \E j \in failed : result.failedStep = logs[j].id

\* the review said not ok and the run still returned success; or said ok on
\* a failed run
C10_Witness ==
  /\ pc = "returned"
  /\ result.status = "success"
  /\ Len(result.logs) >= 1
  /\ result.selfCheck.ok = FALSE

(* ---------------- properties of the Plan Resolver -------------------- *)
\* the plan call has passed the blueprint self-check of a fresh synthesis
Synthesized == ppc \in {"decide", "returned", "threw"} /\ synthCalls = 1

\* C4: when the synthesis reply holds no valid JSON object, plan builds the
\* plan from the fixed two-step fallback blueprint and does not store it
\* under the task's type (so that the next plan call synthesizes again).
C4_FallbackNotStored ==
  (Synthesized /\ ~ExtractJson(synthText).ok) =>
     /\ blueprint = FallbackBlueprint(taskSpec.type)
     /\ Lookup(blueprints, taskSpec.type) = storedAtStart

\* C5: once a blueprint is stored for a type, a later plan call for that
\* type makes no synthesis call and no blueprint self-check call, builds its
\* plan from the stored blueprint and leaves the store entry as it was.
C5_CachedNoOracle ==
  (ppc # "idle" /\ storedAtStart.ty = "object") =>
     /\ synthCalls = 0
     /\ bpCheckCalls = 0
     /\ ppc \in {"decide", "returned", "threw"}
     /\ blueprint = storedAtStart
     /\ Lookup(blueprints, taskSpec.type) = storedAtStart
     /\ ppc = "returned" =>
          /\ storedAtStart.o.steps.ty = "array"
          /\ Len(planResult.steps) = Len(storedAtStart.o.steps.a)

C5_Witness ==
  /\ ppc = "returned"
  /\ storedAtStart.ty = "object"
  /\ Len(planResult.steps) = MaxSteps
  /\ synthCalls = 0

\* C6: a returned plan has one step per step of the blueprint stored for its
\* type, in blueprint order, with pairwise distinct ids, each with the
\* primary that decide returned for it as executor; the blueprint the plan
\* was generated from is the one stored under the type.
C6_PlanFromBlueprint ==
  ppc = "returned" =>
    LET stored == Lookup(blueprints, taskSpec.type)
        ps == planResult.steps
    IN /\ stored.ty = "object"
       /\ blueprint = stored
       /\ Field(stored.o, "steps").ty = "array"
       /\ Len(ps) = Len(stored.o.steps.a)
       /\ Len(arbitrationLog) = Len(ps)
       /\ \A n \in 1..Len(ps) :
            /\ ps[n].title = Field(stored.o.steps.a[n].o, "title")
            /\ ps[n].agent = arbitrationLog[n].final.primary
            /\ ps[n].blueprintAgent = Field(stored.o.steps.a[n].o, "agent")
       /\ \A n1, n2 \in 1..Len(ps) : n1 # n2 => ps[n1].id # ps[n2].id

\* a freshly synthesized blueprint, stored, whose first step got an executor
\* other than the one the blueprint names
C6_Witness ==
  /\ ppc = "returned"
  /\ storedAtStart = JsUndefined
  /\ synthCalls = 1
  /\ Len(planResult.steps) >= 1
  /\ planResult.steps[1].agent # planResult.steps[1].blueprintAgent
  /\ Lookup(blueprints, taskSpec.type).ty = "object"

(* ------------------- properties of Arbitration ----------------------- *)
OracleHasPrimary(raw) ==
  ExtractJson(raw).ok /\ ToBoolean(Field(ExtractJson(raw).json, "primary"))

OracleConfidence(raw) == Field(ExtractJson(raw).json, "confidence")

HeuristicWith(e, src) ==
  /\ e.final.primary = e.heuristic.primary
  /\ e.final.secondary = e.heuristic.secondary
  /\ e.final.reason = e.heuristic.reason
  /\ e.final.confidence = 60
  /\ e.final.source = src

\* C8: decide returns the heuristic decision unchanged with source
\* heuristic_only when the oracle reply is absent, undecodable or names no
\* primary, and with source heuristic_dominate when the oracle's confidence
\* is below 0.6; the oracle's primary is not adopted in either case.
C8_HeuristicKept ==
  \A n \in 1..Len(arbitrationLog) :
    LET e == arbitrationLog[n]
    IN /\ ~OracleHasPrimary(e.raw) => HeuristicWith(e, "heuristic_only")
       /\ ( /\ OracleHasPrimary(e.raw)
            /\ OracleConfidence(e.raw).ty = "number"
            /\ OracleConfidence(e.raw).n < 60 ) => HeuristicWith(e, "heuristic_dominate")

\* both cases in one plan: an oracle decision overruled for its low
\* confidence, and a reply without a primary
C8_Witness ==
  /\ \E n \in 1..Len(arbitrationLog) :
       /\ arbitrationLog[n].final.source = "heuristic_dominate"
       /\ OracleHasPrimary(arbitrationLog[n].raw)
       /\ Field(ExtractJson(arbitrationLog[n].raw).json, "primary")
            # arbitrationLog[n].final.primary
  /\ \E n \in 1..Len(arbitrationLog) :
       arbitrationLog[n].final.source = "heuristic_only"

OracleConfident(raw) ==
  /\ OracleHasPrimary(raw)
  /\ OracleConfidence(raw).ty = "number"
  /\ OracleConfidence(raw).n >= 60

\* C9 as stated: a decodable reply with a primary and a confidence not below
\* 0.6 makes decide return the oracle's primary and secondary with source
\* llm_preferred and confidence max(0.6, oracle); every decision has
\* confidence at least 0.6.
C9_OracleAdopted ==
  \A n \in 1..Len(arbitrationLog) :
    LET e == arbitrationLog[n]
        json == ExtractJson(e.raw).json
    IN /\ e.final.confidence >= 60
       /\ OracleConfident(e.raw) =>
            /\ e.final.primary = Field(json, "primary")
            /\ e.final.secondary = Field(json, "secondary")
            /\ e.final.source = "llm_preferred"
            /\ e.final.confidence = Max(60, OracleConfidence(e.raw).n)

\* C9 amended: as C9, except that the oracle's secondary is returned only
\* when it is an array; otherwise the heuristic secondary list is returned.
C9_OracleAdoptedArraySecondary ==
  \A n \in 1..Len(arbitrationLog) :
    LET e == arbitrationLog[n]
        json == ExtractJson(e.raw).json
    IN /\ e.final.confidence >= 60
       /\ OracleConfident(e.raw) =>
            /\ e.final.primary = Field(json, "primary")
            /\ e.final.secondary = IF Field(json, "secondary").ty = "array"
                                   THEN Field(json, "secondary")
                                   ELSE e.heuristic.secondary
            /\ e.final.source = "llm_preferred"
            /\ e.final.confidence = Max(60, OracleConfidence(e.raw).n)

\* an adopted oracle decision with confidence 0.9, and one whose secondary
\* is not an array
C9_Witness ==
  /\ \E n \in 1..Len(arbitrationLog) :
       /\ OracleConfident(arbitrationLog[n].raw)
       /\ arbitrationLog[n].final.confidence = 90
       /\ arbitrationLog[n].final.primary # arbitrationLog[n].heuristic.primary
  /\ \E n \in 1..Len(arbitrationLog) :
       /\ OracleConfident(arbitrationLog[n].raw)
       /\ Field(ExtractJson(arbitrationLog[n].raw).json, "secondary").ty # "array"
       /\ arbitrationLog[n].final.secondary = arbitrationLog[n].heuristic.secondary

(* --------------- properties of the Execution Engine ------------------ *)
Registered(name) == getPath(builderRegistry, name) = RelPath(name)
Persisted(name) == agentFiles[name] # NoCode
Loads(code) == code.kind \in {"class", "stub"}

C14_StrictlySequential ==
  pc \in {"exec", "check"} =>
    LET steps == pipelineSpec.steps
        faults == Cardinality({n \in 1..Len(attempts) : IsFault(attempts[n])})
    IN /\ stepIdx \in 1..Len(steps)
       /\ Len(logs) = stepIdx - 1
       /\ \A j \in 1..Len(logs) :
            /\ logs[j].id = steps[j].id
            /\ logs[j].success
            /\ execCalls[j] = Len(logs[j].attempts)
       /\ Len(attempts) = attempt - 1
       /\ \A n \in 1..Len(attempts) :
            /\ attempts[n].attempt = n
            /\ IsFault(attempts[n]) \/ IsChecked(attempts[n])
            /\ attempts[n].result # "success"
       /\ execCalls[stepIdx] = IF pc = "exec" THEN attempt - 1 ELSE attempt
       /\ checkCalls[stepIdx] + faults = attempt - 1
       /\ \A j \in (stepIdx + 1)..Len(steps) : execCalls[j] = 0 /\ checkCalls[j] = 0

\* the second attempt of the second step is awaited
C14_Witness ==
  /\ pc = "check"
  /\ stepIdx = 2
  /\ attempt = 2
  /\ Len(logs[1].attempts) = 2

\* C15: a step self-check reply that does not decode as a JSON object counts
\* as ok=true: the attempt is recorded as a success with that verdict, the
\* step is closed as accepted with the attempt's output, and the step is
\* neither attempted again nor recorded as the failed step.
C15_UndecodableReplyAccepts ==
  [][ \A reply \in StepCheckReplies :
        (~ExtractJson(reply).ok /\ selfCheckStep(reply)) =>
          LET id == pipelineSpec.steps[stepIdx].id
              n == Len(logs) + 1
              last == logs'[n].attempts[attempt]
          IN /\ Len(logs') >= n
             /\ logs'[n].id = id
             /\ logs'[n].success
             /\ Len(logs'[n].attempts) = attempt
             /\ last.result = "success"
             /\ last.selfCheck.ok
             /\ context'[id].success
             /\ context'[id].output = pendingOutput
             /\ stepIdx' = stepIdx + 1
             /\ status' = "error" => failedStep' # id ]_vars

\* a reply that did not decode was given on the last attempt of a step the
\* self-check had rejected before, and the step was accepted
C15_Witness ==
  /\ Len(logs) >= 1
  /\ Len(logs[1].attempts) = 2
  /\ IsChecked(logs[1].attempts[2])
  /\ logs[1].attempts[2].selfCheck = [ok |-> TRUE, reason |-> "Self-check parse fallback"]
  /\ logs[1].success

(* ------------------- properties of core/TaskSpec.js ------------------ *)
\* a field that is missing (undefined, null) or empty
Missing(v) == v.ty \in {"undefined", "null"} \/ v = JsStr("")

\* C18: new TaskSpec throws and yields no task object when type or goal is
\* missing or empty; with both present it yields a task that carries the
\* given type and goal and an id that is a non-empty string.
C18_TaskSpecValidation ==
  taskCall.outcome # "none" =>
    IF Missing(taskCall.arg.type) \/ Missing(taskCall.arg.goal)
    THEN /\ taskCall.outcome = "thrown"
         /\ taskCall.message # ""
         /\ taskCall.obj = NoTaskObject
    ELSE /\ taskCall.outcome = "constructed"
         /\ taskCall.obj.type = taskCall.arg.type
         /\ taskCall.obj.goal = taskCall.arg.goal
         /\ taskCall.obj.id.ty = "string"
         /\ taskCall.obj.id.s # ""

\* a type was given and the goal was empty: the constructor threw
C18_Witness ==
  /\ taskCall.outcome = "thrown"
  /\ taskCall.arg.type = JsStr("demo")
  /\ taskCall.arg.goal = JsStr("")

\* step i of the given list carries an id
CarriesId(given, i) == given[i].ty = "object" /\ ToBoolean(Field(given[i].o, "id"))

\* two steps of the given list carry the same id
SharedId(given) ==
  \E i \in 1..Len(given) : \E j \in (i + 1)..Len(given) :
    /\ CarriesId(given, i)
    /\ CarriesId(given, j)
    /\ Field(given[i].o, "id") = Field(given[j].o, "id")

\* C19: new PipelineSpec throws when two steps of the list carry the same id,
\* and the step ids of every PipelineSpec it returns are pairwise distinct.
C19_DuplicateStepIdRejected ==
  pspecCall.op = "new" =>
    /\ SharedId(pspecCall.given) => (pspecCall.thrown # "" /\ ~pspec.exists)
    /\ pspecCall.thrown = "" =>
         /\ pspec.exists
         /\ Len(pspec.steps) = Len(pspecCall.given)
         /\ \A i \in 1..Len(pspec.steps) : \A j \in 1..Len(pspec.steps) :
              i # j => pspec.steps[i].id # pspec.steps[j].id

\* a task id and two steps with id 'a' were given: the constructor threw for
\* the duplicate
C19_Witness ==
  /\ pspecCall.op = "new"
  /\ Len(pspecCall.given) = 2
  /\ SharedId(pspecCall.given)
  /\ pspecCall.thrown = DuplicateIdMsg

\* C20: start changes the state only from idle (to running), pause only from
\* running (to paused), resume only from paused (to running); in any other
\* state the call leaves state, startedAt, finishedAt and the history alone;
\* the state is always one of the five valid states.
C20_GuardedTransitions ==
  [][ /\ smState' \in VALID_STATES
      /\ start =>
           IF smState = "idle"
           THEN smState' = "running" /\ startedAt' = now
           ELSE UNCHANGED <<smState, startedAt, finishedAt, history, pipelineStateLog>>
      /\ pause =>
           IF smState = "running"
           THEN smState' = "paused"
           ELSE UNCHANGED <<smState, startedAt, finishedAt, history, pipelineStateLog>>
      /\ resume =>
           IF smState = "paused"
           THEN smState' = "running"
           ELSE UNCHANGED <<smState, startedAt, finishedAt, history, pipelineStateLog>>
    ]_vars

\* three calls were made, none of them stepBegin or stepEnd, and only two
\* changed the state: the third was a call in a state that does not admit it
C20_Witness ==
  /\ smState = "paused"
  /\ now = 4
  /\ Len(history) = 2
  /\ pipelineStepsLog = <<>>

(* ---------------- properties of modules/MemoryEngine.js -------------- *)
\* the call w is between acquireLock and releaseLock
InSection(w) == writers[w].pc \in {"read", "write"}

Holders(fileName) == {w \in 1..Len(writers) : InSection(w) /\ writers[w].file = fileName}

\* C13: for every store name at most one writeMemory / appendMemory call is
\* between acquireLock and releaseLock, and the name is in locks exactly
\* while some call is.
C13_MutualExclusion ==
  \A fileName \in StoreNames :
    /\ Cardinality(Holders(fileName)) <= 1
    /\ fileName \in locks <=> Holders(fileName) # {}

\* one call holds the lock of a store while another call for the same store
\* polls for it
C13_Witness ==
  \E w \in 1..Len(writers) : \E v \in 1..Len(writers) :
    /\ writers[w].file = writers[v].file
    /\ writers[w].pc = "write"
    /\ writers[v].pc = "sleep"

(* --------------- properties of concurrent plan calls ---------------- *)
\* C17: the blueprint stored for a type is written once: an assignment to
\* this.blueprints[type] is never followed by another one for that type, and
\* every plan of that type is built from the one stored blueprint.
C17_BlueprintWrittenOnce ==
  /\ \A i \in 1..Len(bpWrites) : \A j \in 1..Len(bpWrites) :
       bpWrites[i].type = bpWrites[j].type => i = j
  /\ \A c \in 1..Len(planCalls) :
       planCalls[c].pc \in {"returned", "threw"} =>
         planCalls[c].builtFrom = Lookup(blueprints, planCalls[c].type)

(* ------------- properties of ExecutionEngine, second revision -------- *)
\* C11: when the executor invoked by runAgent throws, the auto-heal pass
\* ends with runAgent rethrowing that same fault: no output is returned in
\* its place, the agent files are left as they were, and the fault caught
\* is the one thrown whatever happened inside autoHeal.
C11_FaultRethrownAfterAutoHeal ==
  [][(rpc = "heal" /\ run.faultAt = "run") =>
       /\ rpc' = "threw"
       /\ run'.outcome = "threw"
       /\ run'.value = ExecutorFault
       /\ run'.fault = ExecutorFault
       /\ executors' = executors]_vars

C11_Witness ==
  /\ rpc = "threw"
  /\ run.faultAt = "run"
  /\ run.value = ExecutorFault
  /\ Len(agentRunsLog) = runs

\* C12: every runAgent call that has ended handed exactly one entry to
\* appendMemory("agent_runs.json"), with status success when it returned
\* an output and error when it threw.
C12_OneAuditEntryPerCall ==
  rpc \in {"returned", "threw"} =>
    /\ Cardinality({i \in 1..Len(agentRunsLog) : agentRunsLog[i].call = runs}) = 1
    /\ \A i \in 1..Len(agentRunsLog) :
         agentRunsLog[i].call = runs =>
           agentRunsLog[i].status = IF rpc = "returned" THEN "success" ELSE "error"

(* ---------------- properties of the audit writes of a run ------------ *)
\* C16: a fault while persisting an audit record never affects the run: the
\* process goes on, so that a run in progress reaches its return with the
\* result it would have had, and nothing reaches the caller.
C16_AuditFaultHarmless ==
  (\E w \in 1..Len(writers) : writers[w].pc \in {"rejected", "reported"}) =>
    proc = "up"

(* ------------- further properties of ControllerLayer.runPipeline ------ *)
\* the steps of the plan whose context entry says success
Succeeded(ctx) ==
  {j \in 1..Len(pipelineSpec.steps) :
     pipelineSpec.steps[j].id \in DOMAIN ctx /\ ctx[pipelineSpec.steps[j].id].success}

\* the steps of the plan whose context entry says failure
Failed(ctx) ==
  {j \in 1..Len(pipelineSpec.steps) :
     pipelineSpec.steps[j].id \in DOMAIN ctx /\ ~ctx[pipelineSpec.steps[j].id].success}

\* C21: the returned status is success or error; it is success exactly when
\* every step of the plan has a context entry with success=true, and then
\* failedStep is null; it is error exactly when one single step has an entry
\* with success=false, and then failedStep is that step's id and every step
\* before it has an entry with success=true.
C21_StatusMatchesContext ==
  pc = "returned" =>
    LET n == Len(pipelineSpec.steps)
        ok == Succeeded(result.context)
        bad == Failed(result.context)
    IN /\ result.status \in {"success", "error"}
       /\ result.status = "success" <=> ok = 1..n
       /\ result.status = "success" => result.failedStep = Null
       /\ result.status = "error" <=> Cardinality(bad) = 1
       /\ result.status = "error" =>
            \A j \in bad : /\ result.failedStep = pipelineSpec.steps[j].id
                           /\ ok = 1..(j - 1)

C21_Witness ==
  /\ pc = "returned"
  /\ result.status = "error"
  /\ Len(pipelineSpec.steps) = 2
  /\ Succeeded(result.context) = {1}
  /\ Failed(result.context) = {2}
  /\ result.failedStep = pipelineSpec.steps[2].id

\* an accepted attempt is the last record of the attempt history atts
AcceptedLast(atts) ==
  \A i \in 1..Len(atts) : atts[i].result = "success" => i = Len(atts)

\* C22: for every step the number of executor invocations is at most the
\* step's retry budget, and an accepted attempt is the last attempt record
\* of its step: no attempt follows it.
C22_BudgetAndAcceptedLast ==
  /\ \A j \in 1..Len(pipelineSpec.steps) :
       execCalls[j] <= maxRetryOf(pipelineSpec.steps[j])
  /\ \A j \in 1..Len(logs) : AcceptedLast(logs[j].attempts)
  /\ pc \in {"exec", "check"} => \A i \in 1..Len(attempts) : attempts[i].result # "success"

C22_Witness ==
  /\ pc = "returned"
  /\ Len(result.logs) = 2
  /\ Len(result.logs[1].attempts) = 2
  /\ result.logs[1].attempts[2].result = "success"
  /\ execCalls[1] = maxRetryOf(pipelineSpec.steps[1])
  /\ result.logs[2].success

\* C23: a step whose retry budget is 0 is never executed: no executor or
\* self-check call is made for it, it is never attempted, it is recorded
\* with success=false and no attempt record, and the run ends there with
\* status error and failedStep that step; and every step recorded as
\* successful has an attempt record with result success.
C23_ZeroBudgetNeverRuns ==
  /\ \A j \in 1..Len(pipelineSpec.steps) :
       maxRetryOf(pipelineSpec.steps[j]) = 0 =>
         /\ execCalls[j] = 0
         /\ checkCalls[j] = 0
         /\ ~(pc \in {"exec", "check"} /\ stepIdx = j)
         /\ j <= Len(logs) =>
              /\ Len(logs) = j
              /\ ~logs[j].success
              /\ logs[j].attempts = <<>>
              /\ context[pipelineSpec.steps[j].id].success = FALSE
              /\ status = "error"
              /\ failedStep = pipelineSpec.steps[j].id
              /\ pc = "returned" =>
                   result.status = "error" /\ result.failedStep = pipelineSpec.steps[j].id
  /\ \A j \in 1..Len(logs) :
       logs[j].success => \E i \in 1..Len(logs[j].attempts) :
                            logs[j].attempts[i].result = "success"

C23_Witness ==
  /\ pc = "returned"
  /\ Len(pipelineSpec.steps) = 2
  /\ pipelineSpec.steps[2].retry = JsNum(0)
  /\ Len(result.logs) = 2
  /\ result.logs[1].success
  /\ result.logs[2].attempts = <<>>
  /\ result.failedStep = pipelineSpec.steps[2].id

\* what the executor sees in input.contextSnapshot
Deref(snapshot) == IF snapshot.live THEN context ELSE snapshot.copy

\* C25: the contextSnapshot handed to an attempt of the k-th step holds an
\* entry for exactly the steps 1..k-1 of the plan, each with success=true,
\* and none for the k-th or a later step; it still does when later steps
\* have been recorded.
C25_SnapshotOfPriorSteps ==
  stepInput # NoInput =>
    LET snap == Deref(stepInput.contextSnapshot)
        k == CHOOSE j \in 1..Len(pipelineSpec.steps) :
               pipelineSpec.steps[j].id = stepInput.stepId
    IN /\ DOMAIN snap = {pipelineSpec.steps[m].id : m \in 1..(k - 1)}
       /\ \A id \in DOMAIN snap : snap[id].success

C25_Witness ==
  /\ pc = "returned"
  /\ Len(result.logs) = 2
  /\ stepInput.stepId = pipelineSpec.steps[2].id
  /\ DOMAIN stepInput.contextSnapshot.copy = {pipelineSpec.steps[1].id}
  /\ DOMAIN result.context = {pipelineSpec.steps[1].id, pipelineSpec.steps[2].id}

(* ------------------ properties of executor resolution ---------------- *)
\* C24: the executor invoked by runAgent(name, ...) is the one resolved for
\* that same name, and the audit entry of the call names it.
C24_NamedExecutorInvoked ==
  /\ rpc \in {"run", "compress", "returned"} => run.finalAgentName = run.agentName
  /\ \A i \in 1..Len(agentRunsLog) :
       agentRunsLog[i].call = runs => agentRunsLog[i].agentName = run.agentName

\* C26: for any interleaving of runAgent calls, generateAgentCode runs and
\* the source file is written at most once per executor name, and at most
\* one instance per name and path is constructed.
C26_SynthesizedOnce ==
  \A name \in AgentNames :
    /\ genCalls[name] <= 1
    /\ Cardinality({c \in 1..Len(engCalls) :
                      engCalls[c].name = name /\ engCalls[c].built}) <= 1

(* ---------------- properties of the persisted stores ----------------- *)
\* C27: no blueprint is lost from the blueprint store: once the plan calls
\* made for new types, on one or several planners sharing
\* pipeline_blueprints.json, have completed and their writes have been
\* carried out, the file holds a blueprint for each of those types.
C27_NoBlueprintLost ==
  (\A c \in 1..Len(saves) : saves[c].pc = "done") =>
    \A c \in 1..Len(saves) : saves[c].type \in DOMAIN storeFile

\* the appendMemory calls made so far on the file at path
Appenders(path) ==
  {w \in 1..Len(writers) : writers[w].op = "append" /\ safePath(writers[w].file) = path}

AppendsByOneNameKept ==
  \A path \in StorePaths :
    (/\ Appenders(path) # {}
     /\ \A w \in 1..Len(writers) :
          safePath(writers[w].file) = path =>
            /\ writers[w].op = "append" /\ writers[w].pc = "resolved"
            /\ writers[w].file = path) =>
      /\ memFiles[path].kind = "array"
      /\ Len(memFiles[path].entries) = Cardinality(Appenders(path))

(* -------------- properties of the blueprint self-check --------------- *)
\* the blueprints carried by the self-check texts that decode
DecodedBlueprints ==
  {Field(ExtractJson(t).json, "blueprint") :
     t \in {u \in {r.toks : r \in BpCheckReplies} \cup Summaries : ExtractJson(u).ok}}

\* C29: a synthesis makes exactly one self-check oracle call; the blueprint
\* plan() accepts is the blueprint of the self-check reply when the reply
\* decodes and the candidate otherwise; and the accepted value has a steps
\* list, so that the plan is instantiated from it.
C29_SelfCheckSinglePass ==
  Synthesized =>
    /\ bpCheckCalls = 1
    /\ blueprint = candidate \/ blueprint \in DecodedBlueprints
    /\ StepsOf(blueprint).ok
    /\ ppc # "threw"

(* ------------- ToolArbitration.decide, candidate lists -------------- *)
IsCandidate(agent, availableAgents) ==
  \E n \in 1..Len(agentsOf(availableAgents)) : agentsOf(availableAgents)[n] = agent

\* C30: the primary executor returned by decide is a member of the
\* candidate list the call was given, or of the default agent list when the
\* candidate list is empty, whatever the task, the signals and the oracle
\* reply are.
C30_PrimaryIsCandidate ==
  arbCall.at # "none" =>
    /\ arbCall.decision.primary.ty = "string"
    /\ IsCandidate(arbCall.decision.primary.s, arbCall.availableAgents)

\* the part of C30 that the code keeps: with the default list the heuristic
\* primary is a member of it
HeuristicPrimaryInDefaultList ==
  (arbCall.at = "decide" /\ arbCall.availableAgents = <<>>
     /\ arbCall.decision.source \in {"heuristic_only", "heuristic_dominate"})
    => IsCandidate(arbCall.decision.primary.s, <<>>)

\* the last attempt record of a closed step
LastAttempt(stepLog) == stepLog.attempts[Len(stepLog.attempts)]

\* C31: a step that failed because the self-check rejected its final
\* attempt has a context entry with success=false, a non-null error and the
\* output of that final attempt; an accepted step has an entry with
\* success=true and the output of the accepted attempt.
C31_EntryKeepsLastOutput ==
  \A j \in 1..Len(logs) :
    Len(logs[j].attempts) > 0 =>
      LET last == LastAttempt(logs[j])
          entry == context[logs[j].id]
      IN /\ last.result = "selfcheck_failed_giveup" =>
              /\ ~entry.success
              /\ entry.error # Null
              /\ entry.output = last.rawOutput
         /\ last.result = "success" =>
              /\ entry.success
              /\ entry.output = last.rawOutput

\* a run whose first step was accepted on its second attempt and whose
\* second step failed because the self-check rejected its second attempt
C31_Witness ==
  /\ pc = "returned"
  /\ Len(result.logs) = 2
  /\ Len(result.logs[1].attempts) = 2
  /\ LastAttempt(result.logs[1]).result = "success"
  /\ result.context[result.logs[1].id].output = OutputOf(2)
  /\ Len(result.logs[2].attempts) = 2
  /\ LastAttempt(result.logs[2]).result = "selfcheck_failed_giveup"
  /\ result.context[result.logs[2].id].output = OutputOf(2)
  /\ result.context[result.logs[2].id].error = SelfCheckFailMsg

(* ------------------- PipelineSpec.addStep ---------------------------- *)
\* C32: the step ids of a PipelineSpec are pairwise distinct after any
\* sequence of addStep calls, failed calls included; an addStep call
\* rejected for a duplicate id leaves the steps list as it was.
C32_StepIdsStayDistinct ==
  /\ [](pspec.exists =>
         \A i \in 1..Len(pspec.steps) : \A j \in 1..Len(pspec.steps) :
           i # j => pspec.steps[i].id # pspec.steps[j].id)
  /\ [][(pspecCall'.op = "addStep" /\ pspecCall'.thrown = DuplicateIdMsg)
          => pspec'.steps = pspec.steps]_vars

(* ---------------- PipelineStateMachine, terminal states -------------- *)
\* C33: completed and failed are terminal: once the state is completed or
\* failed, no call of start, pause, resume, stepBegin, stepEnd, complete or
\* fail changes the state or appends to the history log.
C33_TerminalStates ==
  [][(smState \in {"completed", "failed"})
       => (smState' = smState /\ history' = history)]_vars

\* the history log read as a chain from idle to the current state
HistoryChain ==
  IF history = <<>>
  THEN smState = "idle"
  ELSE /\ history[1].from = "idle"
       /\ \A i \in 2..Len(history) : history[i].from = history[i - 1].to
       /\ history[Len(history)].to = smState

C35_RunDrivesTracker ==
  /\ pc # "idle" => smState # "idle"
  /\ pc = "returned" =>
       /\ result.status = "success" => smState = "completed"
       /\ result.status = "error" => smState = "failed"
       /\ Len(pipelineStepsLog) >= 2 * Len(result.logs)

(* ------------ ControllerLayer.runPipeline, concurrent calls ---------- *)
\* the locals and the context of a call that runs alone on plan spec and
\* receives the replies of trace in order
RECURSIVE Alone(_, _, _, _)
Alone(spec, rs, pending, trace) ==
  IF trace = <<>> THEN rs
  ELSE LET e == Head(trace)
           n == IF e.at = "exec" THEN execSettled(spec, rs, rs.context, e.v)
                ELSE IF e.at = "check"
                THEN checkSettled(spec, rs, rs.context, pending, e.reply)
                ELSE [run |-> [rs EXCEPT !.pc = "returned"], pending |-> Null]
       IN Alone(spec, n.run, n.pending, Tail(trace))

RunAlone(spec, trace) == Alone(spec, EnterStep(spec, 1, <<>>, <<>>), Null, trace)

\* the step ids of the step logs lg
LoggedIds(lg) == {lg[j].id : j \in 1..Len(lg)}

\* C36: concurrent runs are independent: in every interleaving of two
\* runPipeline calls, also on plans with the same step ids, the context,
\* logs, status and failedStep of a call hold only entries of that call's
\* own steps and equal those of the call run alone with the same executor
\* and oracle replies.
C36_RunsIndependent ==
  \A c \in 1..Len(conRuns) :
    LET r == conRuns[c]
        alone == RunAlone(r.spec, r.trace)
    IN /\ DOMAIN heap[r.ref] = LoggedIds(r.run.logs)
       /\ heap[r.ref] = alone.context
       /\ r.run.logs = alone.logs
       /\ r.run.status = alone.status
       /\ r.run.failedStep = alone.failedStep
       /\ r.run.pc = alone.pc

\* two calls on plans with step id 1 are in flight together and have both
\* returned: the first failed, the second succeeded with another output for
\* step 1 and has an entry for its step 2
C36_Witness ==
  /\ Len(conRuns) = 2
  /\ conRuns[1].run.pc = "returned" /\ conRuns[2].run.pc = "returned"
  /\ conRuns[1].run.status = "error" /\ conRuns[2].run.status = "success"
  /\ Len(conRuns[2].spec.steps) = 2
  /\ heap[conRuns[1].ref][1].output # heap[conRuns[2].ref][1].output
  /\ DOMAIN heap[conRuns[1].ref] = {1}
  /\ DOMAIN heap[conRuns[2].ref] = {1, 2}

(* -------------------- runAION, memory recording ---------------------- *)
\* C37: a failure of the memory recording that follows a run is ignored:
\* whether recordTaskRun succeeds or fails, runAION returns mode 'task' with
\* the status, failedStep and context of the run.
C37_RecordingFaultIgnored ==
  apc = "returned" =>
    /\ aion.returned.mode = "task"
    /\ aion.returned.pipelineResult = aion.pipelineResult

(* ------------------ MemoryEngine, progress of writers ---------------- *)
\* the call w has been made and is at one of the awaits of ats
WriterAt(w, ats) == w <= Len(writers) /\ writers[w].pc \in ats

\* a name is in the lock set only while a call with that name is between
\* acquireLock and its finally block
LockHeldByHolder ==
  \A f \in locks : \E w \in 1..Len(writers) :
    writers[w].file = f /\ writers[w].pc \in {"read", "write"}

\* C38: every writeMemory or appendMemory call that waits for the lock of
\* its store eventually acquires it, and every call eventually completes,
\* for the concurrent writers of one store, provided each file operation
\* terminates; the lock is released when the operation finishes, also when
\* it fails, so no writer waits forever.
C38_WritersProgress ==
  /\ []LockHeldByHolder
  /\ \A w \in 1..MaxWriters :
       /\ WriterAt(w, {"sleep"}) ~> WriterAt(w, {"read", "write"})
       /\ WriterAt(w, {"mkdir", "sleep", "read", "write"})
            ~> WriterAt(w, {"resolved", "rejected"})

\* the first call's write failed and released the lock, and the second call
\* under the same name now holds it
C38_Witness ==
  /\ Len(writers) >= 2
  /\ writers[1].file = writers[2].file
  /\ writers[1].pc = "rejected"
  /\ writers[2].pc \in {"read", "write"}
  /\ locks = {writers[2].file}

(* ------------------- runPipeline, termination ------------------------ *)
RECURSIVE SumSeq(_)
SumSeq(q) == IF q = <<>> THEN 0 ELSE Head(q) + SumSeq(Tail(q))

\* the retry budgets of the steps of a plan
Budgets(spec) == [j \in 1..Len(spec.steps) |-> maxRetryOf(spec.steps[j])]

\* C39: runPipeline terminates for every finite plan when every executor
\* call and every oracle call returns or throws: the attempts made in a run
\* number at most the sum of the retry budgets of the plan's steps, and the
\* run reaches a final status and returns a result.
C39_RunTerminates ==
  /\ [](SumSeq(execCalls) <= SumSeq(Budgets(pipelineSpec)))
  /\ [](pc = "returned" => result.status \in {"success", "error"})
  /\ (pc # "idle") ~> (pc = "returned")

\* a run that used its whole budget: two steps with budget 2 each, four
\* attempts, returned
C39_Witness ==
  /\ pc = "returned"
  /\ Len(pipelineSpec.steps) = 2
  /\ SumSeq(Budgets(pipelineSpec)) = 4
  /\ SumSeq(execCalls) = 4

====
